---- MODULE Spec2Model ----
(***************************************************************************)
(* FinancialValidator (financial_data_code_for_refernce/src/               *)
(* step5_validation.py): validate_mapped_data runs five checks over one    *)
(* mapped schema, accumulating errors and warnings, and compiles a result. *)
(*                                                                         *)
(* JSON values are tagged records; a Python str is a sequence of           *)
(* one-character strings, a dict is the sequence of its (key, value)       *)
(* pairs in insertion order.  Floats are modelled by integers: every       *)
(* number in the inputs is integral, and on integral operands the float    *)
(* comparisons of the checks agree with exact arithmetic.                  *)
(***************************************************************************)
EXTENDS Integers, Sequences, FiniteSets

VARIABLES mapped_data, errors, warnings, pc, raised, validation_result

\* The list objects of one FinancialValidator instance.  errors and warnings are
\* the contents of the lists self.errors and self.warnings are bound to now;
\* errors_ref and warnings_ref are the identities of those two objects; heap keeps
\* the contents of the lists the instance is no longer bound to; history is what
\* the callers hold: each returned result with the schema it was computed from;
\* calls counts the calls of validate_mapped_data on the instance.
VARIABLES errors_ref, warnings_ref, heap, history, calls

\* todo: the checks of the running call that have not run yet, when the checks
\* are run in an arbitrary order.
VARIABLES todo

\* AccuracyCalculator (accuracy_calculator/calculate_accuracy.py): the two loaded
\* documents, self.results, the comparisons the traversal has still to record,
\* and the record returned by the last compare_values.
VARIABLES extracted, ground_truth, results, pending, comparison

\* results_ref: the identity of the dict self.results is bound to; heap also
\* keeps the contents of the dicts it was bound to before.
VARIABLES results_ref

\* PayrollExtractionPipeline.process_pdf (main.py): the pages step 1 returned, the
\* position of the page loop, the interim data of the page in hand, the calls made
\* to the raw extractor and the schema mapper so far, and the returned summary.
\* The list `results` of process_pdf is kept in results.
VARIABLES pages, position, interim_data, attempts, summary

validator_vars == <<mapped_data, errors, warnings, raised, validation_result, errors_ref, warnings_ref, heap, history, calls, todo>>

differ_vars == <<extracted, ground_truth, results, pending, comparison, results_ref>>

pipeline_vars == <<pages, position, interim_data, attempts, summary>>

vars == <<pc, validator_vars, differ_vars, pipeline_vars>>

-----------------------------------------------------------------------------
(* JSON / Python values *)

Null == [t |-> "null"]

Str(s) == [t |-> "str", s |-> s]

Num(n) == [t |-> "num", n |-> n]

Dict(kv) == [t |-> "map", kv |-> kv]

List(xs) == [t |-> "list", xs |-> xs]

EmptyDict == Dict(<<>>)

EmptyList == List(<<>>)

\* The value of an expression whose evaluation raised (AttributeError, TypeError).
Exc == [t |-> "exc"]

HasKey(d, k) == \E i \in 1..Len(d.kv) : d.kv[i][1] = k

Item(d, k) == d.kv[CHOOSE i \in 1..Len(d.kv) : d.kv[i][1] = k][2]

\* obj.get(k, default): only a dict has .get; anything else raises AttributeError.
get(obj, k, default) ==
    IF obj.t # "map" THEN Exc
    ELSE IF HasKey(obj, k) THEN Item(obj, k) ELSE default

Abs(x) == IF x < 0 THEN -x ELSE x

-----------------------------------------------------------------------------
(* Text *)

UpperChars == <<"A","B","C","D","E","F","G","H","I","J","K","L","M","N","O","P","Q","R","S","T","U","V","W","X","Y","Z">>

LowerChars == <<"a","b","c","d","e","f","g","h","i","j","k","l","m","n","o","p","q","r","s","t","u","v","w","x","y","z">>

LowerOf(c) ==
    IF \E i \in 1..Len(UpperChars) : UpperChars[i] = c
    THEN LowerChars[CHOOSE i \in 1..Len(UpperChars) : UpperChars[i] = c]
    ELSE c

\* str.lower()
lower(s) == CHOOSE t \in {[i \in 1..Len(x) |-> LowerOf(x[i])] : x \in {s}} : TRUE

\* str.replace(c, '') for the one-character strings c of cs
RemoveChars(s, cs) == SelectSeq(s, LAMBDA c : c \notin cs)

\* U+001C (file separator), one of the four separators U+001C..U+001F.
c_FS == "<FS>"

\* The characters str.strip() removes: blanks and the separators U+001C..U+001F.
Whitespace == {" ", "\t", "\n", c_FS}

RECURSIVE LStrip(_)
LStrip(s) == IF s # <<>> /\ Head(s) \in Whitespace THEN LStrip(Tail(s)) ELSE s

RECURSIVE RStrip(_)
RStrip(s) ==
    IF s # <<>> /\ s[Len(s)] \in Whitespace
    THEN RStrip(SubSeq(s, 1, Len(s) - 1)) ELSE s

\* str.strip()
strip(s) == RStrip(LStrip(s))

\* Python's `needle in hay` on strings
Contains(needle, hay) ==
    \E i \in 0..(Len(hay) - Len(needle)) : SubSeq(hay, i + 1, i + Len(needle)) = needle

Digits == {"0", "1", "2", "3", "4", "5", "6", "7", "8", "9"}

DigitChars == <<"0", "1", "2", "3", "4", "5", "6", "7", "8", "9">>

DigitVal(c) == (CHOOSE i \in 1..Len(DigitChars) : DigitChars[i] = c) - 1

RECURSIVE DigitsValue(_)
DigitsValue(s) ==
    IF s = <<>> THEN 0
    ELSE 10 * DigitsValue(SubSeq(s, 1, Len(s) - 1)) + DigitVal(s[Len(s)])

\* float(s) on the strings of the model (letters, digits, sign, comma, blanks, c_FS):
\* surrounding whitespace is ignored, then an optional sign and one or more digits;
\* anything else is a ValueError.
\* float() ignores surrounding blanks, but not the separators U+001C..U+001F.
FloatSpace == Whitespace \ {c_FS}

RECURSIVE float_lstrip(_)
float_lstrip(s) == IF s # <<>> /\ Head(s) \in FloatSpace THEN float_lstrip(Tail(s)) ELSE s

RECURSIVE float_rstrip(_)
float_rstrip(s) ==
    IF s # <<>> /\ s[Len(s)] \in FloatSpace
    THEN float_rstrip(SubSeq(s, 1, Len(s) - 1)) ELSE s

float_strip(s) == float_rstrip(float_lstrip(s))

Unsigned(s) ==
    LET b == float_strip(s)
    IN IF b # <<>> /\ Head(b) \in {"+", "-"} THEN Tail(b) ELSE b

float_ok(s) ==
    LET u == Unsigned(s)
    IN u # <<>> /\ \A i \in 1..Len(u) : u[i] \in Digits

float(s) ==
    LET b == float_strip(s)
    IN IF Head(b) = "-" THEN -DigitsValue(Unsigned(s)) ELSE DigitsValue(Unsigned(s))

RECURSIVE NatChars(_)
NatChars(n) ==
    IF n < 10 THEN <<DigitChars[n + 1]>>
    ELSE NatChars(n \div 10) \o <<DigitChars[(n % 10) + 1]>>

\* str(x) of a float with an integral value: "1000.0"
FloatStr(n) == (IF n < 0 THEN <<"-">> ELSE <<>>) \o NatChars(Abs(n)) \o <<".", "0">>

needle_accounting_equation == <<"a","c","c","o","u","n","t","i","n","g"," ","e","q","u","a","t","i","o","n">>

txt_AccEq1 == <<"A","c","c","o","u","n","t","i","n","g"," ","e","q","u","a","t","i","o","n"," ","f","a","i","l","e","d",":"," ","A","s","s","e","t","s"," ","(">>

txt_AccEq2 == <<")"," ","=/="," ","L","i","a","b","i","l","i","t","i","e","s"," ","(">>

txt_AccEq3 == <<")"," ","+"," ","E","q","u","i","t","y"," ","(">>

txt_AccEq4 == <<")">>

txt_AccEqFailed == <<"A","c","c","o","u","n","t","i","n","g"," ","e","q","u","a","t","i","o","n"," ","f","a","i","l","e","d">>

txt_NonNum1 == <<" ","h","a","s"," ","n","o","n","-","n","u","m","e","r","i","c"," ","v","a","l","u","e"," ","f","o","r"," ">>

txt_NonNum2 == <<":"," ","'">>

txt_NonNum3 == <<"'">>

kw_total == <<"t","o","t","a","l">>

kw_assets == <<"a","s","s","e","t","s">>

kw_liabilities == <<"l","i","a","b","i","l","i","t","i","e","s">>

kw_equity == <<"e","q","u","i","t","y">>

KeyChars(k) ==
    CASE k = "Equity" -> <<"E","q","u","i","t","y">>
      [] k = "NonCurrentLiabilities" -> <<"N","o","n","C","u","r","r","e","n","t","L","i","a","b","i","l","i","t","i","e","s">>
      [] k = "CurrentLiabilities" -> <<"C","u","r","r","e","n","t","L","i","a","b","i","l","i","t","i","e","s">>
      [] k = "NonCurrentAssets" -> <<"N","o","n","C","u","r","r","e","n","t","A","s","s","e","t","s">>
      [] k = "CurrentAssets" -> <<"C","u","r","r","e","n","t","A","s","s","e","t","s">>
      [] k = "AssetsTotal" -> <<"A","s","s","e","t","s","T","o","t","a","l">>
      [] k = "LiabilitiesTotal" -> <<"L","i","a","b","i","l","i","t","i","e","s","T","o","t","a","l">>
      [] k = "TotalEquity" -> <<"T","o","t","a","l","E","q","u","i","t","y">>
      [] k = "ShareCapital" -> <<"S","h","a","r","e","C","a","p","i","t","a","l">>
      [] k = "LongTermBorrowings" -> <<"L","o","n","g","T","e","r","m","B","o","r","r","o","w","i","n","g","s">>
      [] k = "TradePayables" -> <<"T","r","a","d","e","P","a","y","a","b","l","e","s">>
      [] k = "IntangibleAssets" -> <<"I","n","t","a","n","g","i","b","l","e","A","s","s","e","t","s">>
      [] k = "Inventories" -> <<"I","n","v","e","n","t","o","r","i","e","s">>
      [] k = "TradeReceivables" -> <<"T","r","a","d","e","R","e","c","e","i","v","a","b","l","e","s">>
      [] k = "TotalCurrentAssets" -> <<"T","o","t","a","l","C","u","r","r","e","n","t","A","s","s","e","t","s">>
      [] k = "description" -> <<"d","e","s","c","r","i","p","t","i","o","n">>
      [] k = "2019" -> <<"2","0","1","9">>
      [] k = "2020" -> <<"2","0","2","0">>
      [] k = "2021" -> <<"2","0","2","1">>

-----------------------------------------------------------------------------
(* Sample strings of the inputs *)

s_abc == <<"a","b","c">>

s_1sp000 == <<"1"," ","0","0","0">>

s_1c000 == <<"1",",","0","0","0">>

s_pad12 == <<" ","1","2"," ">>

s_tab12 == <<"\t","1","2">>

s_fs12 == <<c_FS,"1","2">>

s_12 == <<"1","2">>

s_neg5 == <<"-","5">>

s_acc_eq == <<"a","c","c","o","u","n","t","i","n","g"," ","e","q","u","a","t","i","o","n">>

s_0 == <<"0">>

s_5 == <<"5">>

s_398 == <<"3","9","8">>

s_399 == <<"3","9","9">>

s_400 == <<"4","0","0">>

s_401 == <<"4","0","1">>

s_402 == <<"4","0","2">>

s_600 == <<"6","0","0">>

s_988 == <<"9","8","8">>

s_989 == <<"9","8","9">>

s_990 == <<"9","9","0">>

s_1000 == <<"1","0","0","0">>

s_1005 == <<"1","0","0","5">>

s_1010 == <<"1","0","1","0">>

s_1011 == <<"1","0","1","1">>

s_1012 == <<"1","0","1","2">>

s_neg1000 == <<"-","1","0","0","0">>

l_TotalReserves == <<"T","o","t","a","l"," ","R","e","s","e","r","v","e","s">>

l_MiscNote12 == <<"M","i","s","c","e","l","l","a","n","e","o","u","s"," ","N","o","t","e"," ","1","2">>

l_TOTAL == <<"T","O","T","A","L">>

l_NetAssets == <<"N","e","t"," ","A","s","s","e","t","s">>

l_ShareholderEquity == <<"S","h","a","r","e","h","o","l","d","e","r"," ","E","q","u","i","t","y">>

l_OtherLiabilities == <<"O","t","h","e","r"," ","L","I","A","B","I","L","I","T","I","E","S">>

l_Note == <<"N","o","t","e">>

l_desc == <<"O","w","n","e","r","'","s"," ","e","q","u","i","t","y">>

-----------------------------------------------------------------------------
(* Messages appended to self.errors / self.warnings.  A message is kept as  *)
(* the record of the values formatted into it; ErrorText renders an error.  *)

AccountingEquationError(assets_total, liab_total, equity_total) ==
    [kind |-> "accounting_equation", assets |-> assets_total,
     liab |-> liab_total, equity |-> equity_total]

NonNumericError(section, field_name, year, value) ==
    [kind |-> "non_numeric", section |-> section, field_name |-> field_name,
     year |-> year, value |-> value]

CannotValidateWarning == [kind |-> "cannot_validate"]

ErrorValidatingWarning == [kind |-> "error_validating"]

SubtotalWarning(total, components_sum) ==
    [kind |-> "subtotal", total |-> total, components_sum |-> components_sum]

MissingYearsWarning(section, field_name, n) ==
    [kind |-> "missing_years", section |-> section, field_name |-> field_name, n |-> n]

HighUnmappedWarning(n) == [kind |-> "high_unmapped", n |-> n]

ImportantUnmappedWarning(label_raw) == [kind |-> "important_unmapped", label_raw |-> label_raw]

\* The f-strings of the two error messages.
ErrorText(e) ==
    IF e.kind = "accounting_equation"
    THEN txt_AccEq1 \o FloatStr(e.assets) \o txt_AccEq2 \o FloatStr(e.liab)
         \o txt_AccEq3 \o FloatStr(e.equity) \o txt_AccEq4
    ELSE KeyChars(e.section) \o <<".">> \o KeyChars(e.field_name) \o txt_NonNum1
         \o KeyChars(e.year) \o txt_NonNum2 \o e.value.s \o txt_NonNum3

\* What one check did: the messages it appended, and whether it raised.
Outcome(errs, warns, r) == [errs |-> errs, warns |-> warns, raised |-> r]

-----------------------------------------------------------------------------
(* _is_numeric and _extract_numeric_value *)

\* Mutant: only the commas are removed before the strip.
is_numeric_cleaned_commas(s) == strip(RemoveChars(s, {","}))

is_numeric_cleaned(s) == strip(RemoveChars(RemoveChars(s, {","}), {" "}))

is_numeric(value) ==
    IF value.t = "num" THEN TRUE
    ELSE IF value.t = "str" THEN float_ok(is_numeric_cleaned(value.s))
    ELSE FALSE

extract_cleaned(s) == RemoveChars(RemoveChars(s, {","}), {" "})

RECURSIVE extract_scan(_, _)
extract_scan(kv, i) ==
    IF i > Len(kv) THEN Null
    ELSE LET value == kv[i][2]
         IN IF value = Null \/ value = Str(<<>>) THEN extract_scan(kv, i + 1)
            ELSE IF value.t = "num" THEN Num(value.n)
            ELSE IF value.t = "str" /\ float_ok(extract_cleaned(value.s))
                 THEN Num(float(extract_cleaned(value.s)))
            ELSE extract_scan(kv, i + 1)

\* Mutant: `return 0.0` where the code returns None.
extract_numeric_value_zero(years_dict) ==
    IF years_dict.t # "map" THEN Exc
    ELSE IF extract_scan(years_dict.kv, 1) = Null THEN Num(0)
    ELSE extract_scan(years_dict.kv, 1)

\* None is Null; years_dict.items() raises on anything that is not a dict.
extract_numeric_value(years_dict) ==
    IF years_dict.t # "map" THEN Exc ELSE extract_scan(years_dict.kv, 1)

-----------------------------------------------------------------------------
(* Check 1: _validate_accounting_equation *)

EquationTolerance == 1

\* Mutant: `>= 1` for `> 1`.
EquationFails_inclusive(assets_total, liab_total, equity_total) ==
    Abs(assets_total - (liab_total + equity_total)) >= EquationTolerance

\* Mutant: expected_assets = liab_total - equity_total.
EquationFails_sign(assets_total, liab_total, equity_total) ==
    Abs(assets_total - (liab_total - equity_total)) > EquationTolerance

EquationFails(assets_total, liab_total, equity_total) ==
    Abs(assets_total - (liab_total + equity_total)) > EquationTolerance

assets_total_of(md) ==
    extract_numeric_value(get(get(md, "AssetsTotal", EmptyDict), "years", EmptyDict))

liab_total_of(md) ==
    extract_numeric_value(get(get(md, "LiabilitiesTotal", EmptyDict), "years", EmptyDict))

equity_total_of(md) ==
    extract_numeric_value(
        get(get(get(md, "Equity", EmptyDict), "TotalEquity", EmptyDict), "years", EmptyDict))

MissingTotals == Outcome(<<>>, <<CannotValidateWarning>>, FALSE)

validate_accounting_equation_out(md) ==
    LET assets_total == assets_total_of(md)
        liab_total == liab_total_of(md)
        equity_total == equity_total_of(md)
    IN IF Exc \in {assets_total, liab_total, equity_total}
       THEN Outcome(<<>>, <<ErrorValidatingWarning>>, FALSE)
       ELSE IF assets_total # Null /\ liab_total # Null /\ equity_total # Null
       THEN IF EquationFails(assets_total.n, liab_total.n, equity_total.n)
            THEN Outcome(<<AccountingEquationError(assets_total.n, liab_total.n,
                                                   equity_total.n)>>, <<>>, FALSE)
            ELSE Outcome(<<>>, <<>>, FALSE)
       ELSE MissingTotals

-----------------------------------------------------------------------------
(* Check 2: _validate_numeric_values *)

NumericSections ==
    <<"Equity", "NonCurrentLiabilities", "CurrentLiabilities",
      "NonCurrentAssets", "CurrentAssets">>

RECURSIVE numeric_years(_, _, _, _)
numeric_years(section, field_name, kv, i) ==
    IF i > Len(kv) THEN <<>>
    ELSE LET year == kv[i][1]
             value == kv[i][2]
             rest == numeric_years(section, field_name, kv, i + 1)
         IN IF value = Null \/ value = Str(<<>>) THEN rest
            ELSE IF ~is_numeric(value)
                 THEN <<NonNumericError(section, field_name, year, value)>> \o rest
            ELSE rest

RECURSIVE numeric_fields(_, _, _)
numeric_fields(section, kv, i) ==
    IF i > Len(kv) THEN Outcome(<<>>, <<>>, FALSE)
    ELSE LET field_name == kv[i][1]
             field_obj == kv[i][2]
         IN IF field_obj.t # "map" THEN numeric_fields(section, kv, i + 1)
            ELSE LET years == get(field_obj, "years", EmptyDict)
                 IN IF years.t # "map" THEN Outcome(<<>>, <<>>, TRUE)
                    ELSE LET here == numeric_years(section, field_name, years.kv, 1)
                             rest == numeric_fields(section, kv, i + 1)
                         IN Outcome(here \o rest.errs, <<>>, rest.raised)

RECURSIVE numeric_sections(_, _)
numeric_sections(md, i) ==
    IF i > Len(NumericSections) THEN Outcome(<<>>, <<>>, FALSE)
    ELSE LET section == NumericSections[i]
         IN IF ~HasKey(md, section) THEN numeric_sections(md, i + 1)
            ELSE LET section_data == Item(md, section)
                 IN IF section_data.t # "map" THEN Outcome(<<>>, <<>>, TRUE)
                    ELSE LET here == numeric_fields(section, section_data.kv, 1)
                         IN IF here.raised THEN here
                            ELSE LET rest == numeric_sections(md, i + 1)
                                 IN Outcome(here.errs \o rest.errs, <<>>, rest.raised)

validate_numeric_values_out(md) == numeric_sections(md, 1)

-----------------------------------------------------------------------------
(* Check 3: _validate_subtotals *)

\* len(x); a TypeError for None and numbers
HasLen(v) == v.t \in {"list", "map", "str"}

PyLen(v) ==
    IF v.t = "list" THEN Len(v.xs) ELSE IF v.t = "map" THEN Len(v.kv) ELSE Len(v.s)

\* `'TotalCurrentAssets' in current_assets`; a TypeError for None and numbers
InRaises(container) == container.t \notin {"map", "str", "list"}

In(k, container) ==
    IF container.t = "map" THEN HasKey(container, k)
    ELSE IF container.t = "str" THEN Contains(KeyChars(k), container.s)
    ELSE \E i \in 1..Len(container.xs) : container.xs[i] = Str(KeyChars(k))

\* [self._extract_numeric_value(v.get('years', {})) for k, v in ... if k != total and isinstance(v, dict)]
RECURSIVE components_of(_, _)
components_of(kv, i) ==
    IF i > Len(kv) THEN <<>>
    ELSE LET k == kv[i][1]
             v == kv[i][2]
         IN IF k # "TotalCurrentAssets" /\ v.t = "map"
            THEN <<extract_numeric_value(get(v, "years", EmptyDict))>> \o components_of(kv, i + 1)
            ELSE components_of(kv, i + 1)

\* sum([...]) raises TypeError on a None element
SumRaises(xs) == \E i \in 1..Len(xs) : xs[i] = Null

RECURSIVE Sum(_)
Sum(xs) == IF xs = <<>> THEN 0 ELSE Head(xs).n + Sum(Tail(xs))

SubtotalTolerancePercent == 1

\* `total and components_sum and abs(total - components_sum) > components_sum * 0.01`
SubtotalDiffers(total, components_sum) ==
    /\ total # Null /\ total.n # 0
    /\ components_sum # 0
    /\ 100 * Abs(total.n - components_sum) > components_sum * SubtotalTolerancePercent

validate_subtotals_out(md) ==
    LET current_assets == get(md, "CurrentAssets", EmptyDict)
    IN IF InRaises(current_assets) THEN Outcome(<<>>, <<>>, TRUE)
       ELSE IF ~In("TotalCurrentAssets", current_assets) THEN Outcome(<<>>, <<>>, FALSE)
       ELSE IF current_assets.t # "map" THEN Outcome(<<>>, <<>>, TRUE)
       ELSE LET total == extract_numeric_value(
                             get(Item(current_assets, "TotalCurrentAssets"), "years", EmptyDict))
                components == components_of(current_assets.kv, 1)
            IN IF total = Exc \/ (\E i \in 1..Len(components) : components[i] = Exc)
                  \/ SumRaises(components)
               THEN Outcome(<<>>, <<>>, TRUE)
               ELSE IF SubtotalDiffers(total, Sum(components))
                    THEN Outcome(<<>>, <<SubtotalWarning(total.n, Sum(components))>>, FALSE)
                    ELSE Outcome(<<>>, <<>>, FALSE)

-----------------------------------------------------------------------------
(* Check 4: _validate_consistency *)

ConsistencySections == <<"Equity", "NonCurrentAssets">>

MinYearsToCompare == 2

\* Mutant: only the entries holding a value are counted.
YearsMissing_populated(year_values, n_years) ==
    IF year_values.t = "map"
    THEN Cardinality({i \in 1..Len(year_values.kv) :
                        year_values.kv[i][2] # Null /\ year_values.kv[i][2] # Str(<<>>)}) < n_years
    ELSE PyLen(year_values) < n_years

\* `len(year_values) < len(years)`
YearsMissing(year_values, n_years) == PyLen(year_values) < n_years

RECURSIVE consistency_fields(_, _, _, _)
consistency_fields(section, kv, i, n_years) ==
    IF i > Len(kv) THEN Outcome(<<>>, <<>>, FALSE)
    ELSE LET field_name == kv[i][1]
             field_obj == kv[i][2]
         IN IF field_obj.t # "map" THEN consistency_fields(section, kv, i + 1, n_years)
            ELSE LET year_values == get(field_obj, "years", EmptyDict)
                 IN IF ~HasLen(year_values) THEN Outcome(<<>>, <<>>, TRUE)
                    ELSE LET here == IF YearsMissing(year_values, n_years)
                                     THEN <<MissingYearsWarning(section, field_name,
                                                n_years - PyLen(year_values))>>
                                     ELSE <<>>
                             rest == consistency_fields(section, kv, i + 1, n_years)
                         IN Outcome(<<>>, here \o rest.warns, rest.raised)

RECURSIVE consistency_sections(_, _, _)
consistency_sections(md, i, n_years) ==
    IF i > Len(ConsistencySections) THEN Outcome(<<>>, <<>>, FALSE)
    ELSE LET section == ConsistencySections[i]
         IN IF ~HasKey(md, section) THEN consistency_sections(md, i + 1, n_years)
            ELSE LET section_data == Item(md, section)
                 IN IF section_data.t # "map" THEN Outcome(<<>>, <<>>, TRUE)
                    ELSE LET here == consistency_fields(section, section_data.kv, 1, n_years)
                         IN IF here.raised THEN here
                            ELSE LET rest == consistency_sections(md, i + 1, n_years)
                                 IN Outcome(<<>>, here.warns \o rest.warns, rest.raised)

validate_consistency_out(md) ==
    LET years == get(get(md, "metadata", EmptyDict), "years", EmptyList)
    IN IF ~HasLen(years) THEN Outcome(<<>>, <<>>, TRUE)
       ELSE IF PyLen(years) < MinYearsToCompare THEN Outcome(<<>>, <<>>, FALSE)
       ELSE consistency_sections(md, 1, PyLen(years))

-----------------------------------------------------------------------------
(* Check 5: _validate_unmapped_items *)

HighUnmappedThreshold == 10

\* Mutant: `>= 10` for `> 10`.
TooManyUnmapped_inclusive(n) == n >= HighUnmappedThreshold

TooManyUnmapped(n) == n > HighUnmappedThreshold

critical_keywords == <<kw_total, kw_assets, kw_liabilities, kw_equity>>

\* item.get('label_raw', '').lower() raises unless the label is a str
LabelRaises(item) == get(item, "label_raw", Str(<<>>)).t # "str"

label_of(item) == lower(get(item, "label_raw", Str(<<>>)).s)

\* any(keyword in label for keyword in critical_keywords)
IsCritical(label) ==
    \E j \in 1..Len(critical_keywords) : Contains(critical_keywords[j], label)

RECURSIVE unmapped_scan(_, _)
unmapped_scan(xs, i) ==
    IF i > Len(xs) THEN Outcome(<<>>, <<>>, FALSE)
    ELSE LET item == xs[i]
         IN IF LabelRaises(item) THEN Outcome(<<>>, <<>>, TRUE)
            ELSE LET here == IF IsCritical(label_of(item))
                             THEN <<ImportantUnmappedWarning(get(item, "label_raw", Null))>>
                             ELSE <<>>
                     rest == unmapped_scan(xs, i + 1)
                 IN Outcome(<<>>, here \o rest.warns, rest.raised)

validate_unmapped_items_out(md) ==
    LET unmapped == get(get(md, "unmapped_items", EmptyDict), "items", EmptyList)
    IN IF ~HasLen(unmapped) THEN Outcome(<<>>, <<>>, TRUE)
       ELSE LET high == IF TooManyUnmapped(PyLen(unmapped))
                        THEN <<HighUnmappedWarning(PyLen(unmapped))>> ELSE <<>>
            IN IF unmapped.t # "list"
               THEN Outcome(<<>>, high, PyLen(unmapped) > 0)
               ELSE LET scan == unmapped_scan(unmapped.xs, 1)
                    IN Outcome(<<>>, high \o scan.warns, scan.raised)

-----------------------------------------------------------------------------
(* Result assembly *)

NoResult == [status |-> "none"]

\* Mutant: only the first error is looked at.
accounting_equation_valid_of_first(errs) ==
    errs = <<>> \/ ~Contains(needle_accounting_equation, ErrorText(errs[1]))

\* len([e for e in self.errors if 'accounting equation' in e]) == 0
accounting_equation_valid_of(errs) ==
    Len(SelectSeq(errs, LAMBDA e : Contains(needle_accounting_equation, ErrorText(e)))) = 0

\* Mutant: PASS only when nothing at all was appended.
status_of_any_message(errs, warns) ==
    IF Len(errs) = 0 /\ Len(warns) = 0 THEN "PASS" ELSE "FAIL"

status_of(errs, warns) == IF Len(errs) = 0 THEN "PASS" ELSE "FAIL"

compile_results(errs, warns) ==
    [accounting_equation_valid |-> accounting_equation_valid_of(errs),
     total_errors |-> Len(errs),
     total_warnings |-> Len(warns),
     errors |-> errs,
     warnings |-> warns,
     status |-> status_of(errs, warns)]

-----------------------------------------------------------------------------
(* Input schemas.  Absent marks a key that is left out of a mapping. *)

Absent == [t |-> "absent"]

MkDict(pairs) == Dict(SelectSeq(pairs, LAMBDA p : p[2] # Absent))

\* A leaf field {value, confidence, years, ...}; only `years` is read.
Field(years) == MkDict(<< <<"value", Null>>, <<"years", years>> >>)

Y1(v) == Dict(<< <<"2020", v>> >>)

Y2(v, w) == Dict(<< <<"2019", v>>, <<"2020", w>> >>)

\* A section: its description string, then its fields.
Section(fields) == MkDict(<< <<"description", Str(l_desc)>> >> \o fields)

Schema(metadata, Equity, NonCurrentLiabilities, CurrentLiabilities, LiabilitiesTotal, NonCurrentAssets, CurrentAssets, AssetsTotal, unmapped_items) ==
    MkDict(<< <<"metadata", metadata>>, <<"Equity", Equity>>,
              <<"NonCurrentLiabilities", NonCurrentLiabilities>>,
              <<"CurrentLiabilities", CurrentLiabilities>>,
              <<"LiabilitiesTotal", LiabilitiesTotal>>,
              <<"NonCurrentAssets", NonCurrentAssets>>,
              <<"CurrentAssets", CurrentAssets>>,
              <<"AssetsTotal", AssetsTotal>>,
              <<"unmapped_items", unmapped_items>> >>)

MaxMetaYears == 3

MaxFiller == 11

MetaYears(k) == Dict(<< <<"years", List([i \in 1..k |-> Num(2018 + i)])>> >>)

\* A field that is absent, null, without `years`, or whose years hold no number.
Unpopulated ==
    {Null, Field(Absent), Field(Null), Field(EmptyDict),
     Field(Y1(Null)), Field(Y1(Str(<<>>))), Field(Y1(Str(s_abc)))}

(* Family A: the three totals of the accounting equation. *)
AssetsChoices ==
    {Absent} \cup Unpopulated \cup
    {Field(Y1(Str(s_1000))), Field(Y1(Str(s_1c000))), Field(Y1(Num(1000))),
     Field(Y2(Null, Str(s_1000))), Field(Y2(Str(s_abc), Str(s_1000))),
     Field(Y2(Str(s_1000), Str(s_400)))}

LiabChoices ==
    {Absent} \cup Unpopulated \cup
    {Field(Y1(Str(s_600))), Field(Y1(Num(600))), Field(Y2(Str(<<>>), Str(s_600)))}

TotalEquityChoices ==
    Unpopulated \cup
    {Field(Y1(Str(s))) : s \in {s_398, s_399, s_400, s_401, s_402}}

EquityChoicesA ==
    {Absent, Null, Section(<<>>)} \cup
    {Section(<< <<"TotalEquity", f>> >>) : f \in TotalEquityChoices}

FamilyA ==
    {Schema(Absent, e, Absent, Absent, l, Absent, Absent, a, Absent) :
        a \in AssetsChoices, l \in LiabChoices, e \in EquityChoicesA}

(* Family B: year values under the structural sections, and metadata.years. *)
ValuesB ==
    {Null, Str(<<>>), Str(s_abc), Str(s_1sp000), Str(s_1c000), Str(s_pad12),
     Str(s_12), Num(7), Str(s_acc_eq)}

ValuesB2 == {Null, Str(s_abc), Str(s_12)}

FieldsB ==
    {Null, Field(Absent), Field(Null), Field(EmptyDict)}
    \cup {Field(Y1(v)) : v \in ValuesB}
    \cup {Field(Y2(v, w)) : v \in ValuesB2, w \in ValuesB2}

MetaChoices ==
    {Absent, Null, EmptyDict, Dict(<< <<"years", Null>> >>)}
    \cup {MetaYears(k) : k \in 0..MaxMetaYears}

OneField(name, f) == Section(<< <<name, f>> >>)

FamilyB1 ==
    {Schema(m, OneField("ShareCapital", f), Absent, Absent, Absent, Absent, Absent, Absent, Absent) :
        m \in MetaChoices, f \in FieldsB}
    \cup {Schema(m, Absent, OneField("LongTermBorrowings", f), Absent, Absent, Absent, Absent, Absent, Absent) :
        m \in MetaChoices, f \in FieldsB}
    \cup {Schema(m, Absent, Absent, OneField("TradePayables", f), Absent, Absent, Absent, Absent, Absent) :
        m \in MetaChoices, f \in FieldsB}
    \cup {Schema(m, Absent, Absent, Absent, Absent, OneField("IntangibleAssets", f), Absent, Absent, Absent) :
        m \in MetaChoices, f \in FieldsB}
    \cup {Schema(m, Absent, Absent, Absent, Absent, Absent, OneField("Inventories", f), Absent, Absent) :
        m \in MetaChoices, f \in FieldsB}

FamilyB2 ==
    {Schema(m, Section(<< <<"ShareCapital", f>>, <<"TotalEquity", g>> >>),
            Absent, Absent, Absent, Absent, Absent, Absent, Absent) :
        m \in {Absent, MetaYears(2)}, f \in FieldsB, g \in FieldsB}

FamilyB3 ==
    {Schema(m, e, Absent, Absent, Absent, n, Absent, Absent, Absent) :
        m \in {Absent, MetaYears(2), MetaYears(MaxMetaYears)},
        e \in {Null} \cup {OneField("ShareCapital", f) : f \in FieldsB},
        n \in {Null} \cup {OneField("IntangibleAssets", Field(Y2(v, w))) :
                              v \in ValuesB2, w \in ValuesB2}}

(* Family C: CurrentAssets with its total and two components. *)
InventoriesChoices ==
    {Absent, Null, Field(EmptyDict)}
    \cup {Field(Y1(Str(s))) : s \in {s_600, s_1000, s_0, s_neg1000, s_abc}}

ReceivablesChoices ==
    {Absent, Field(EmptyDict)} \cup {Field(Y1(Str(s))) : s \in {s_400, s_0, s_5}}

TotalChoices ==
    {Absent, Null, Field(Absent), Field(EmptyDict)}
    \cup {Field(Y1(Str(s))) :
            s \in {s_0, s_5, s_988, s_989, s_990, s_1000, s_1005, s_1010, s_1011,
                   s_1012, s_neg1000, s_abc}}

FamilyC ==
    {Schema(Absent, Absent, Absent, Absent, Absent, Absent,
            Section(<< <<"Inventories", i>>, <<"TradeReceivables", r>>,
                       <<"TotalCurrentAssets", t>> >>),
            Absent, Absent) :
        i \in InventoriesChoices, r \in ReceivablesChoices, t \in TotalChoices}
    \cup {Schema(Absent, Absent, Absent, Absent, Absent, Absent, Null, Absent, Absent)}

(* Family D: unmapped items. *)
Unmapped(label_raw) == MkDict(<< <<"label_raw", label_raw>>, <<"values", EmptyDict>> >>)

ItemChoices ==
    {Unmapped(Absent), Unmapped(Null), Unmapped(Str(<<>>))}
    \cup {Unmapped(Str(s)) :
            s \in {l_TotalReserves, l_MiscNote12, l_TOTAL, l_NetAssets,
                   l_ShareholderEquity, l_OtherLiabilities}}

Extras ==
    {<<>>} \cup {<<x>> : x \in ItemChoices} \cup {<<x, y>> : x \in ItemChoices, y \in ItemChoices}

Fillers(k) == [i \in 1..k |-> Unmapped(Str(l_Note))]

UnmappedItems(xs) ==
    MkDict(<< <<"description", Str(l_desc)>>, <<"items", List(xs)>> >>)

FamilyD ==
    {Schema(Absent, Absent, Absent, Absent, Absent, Absent, Absent, Absent,
            UnmappedItems(Fillers(k) \o x)) : k \in 0..MaxFiller, x \in Extras}
    \cup {Schema(Absent, Absent, Absent, Absent, Absent, Absent, Absent, Absent, u) :
            u \in {Null, EmptyDict, Dict(<< <<"items", Null>> >>)}}

(* Family E: whole schemas, the unfilled template among them. *)
Blank == Field(EmptyDict)

FamilyE ==
    {Schema(m,
            Section(<< <<"ShareCapital", sc>>, <<"TotalEquity", te>> >>),
            OneField("LongTermBorrowings", Blank),
            OneField("TradePayables", Blank),
            lt,
            OneField("IntangibleAssets", Blank),
            Section(<< <<"Inventories", inv>>, <<"TradeReceivables", Field(Y1(Str(s_400)))>>,
                       <<"TotalCurrentAssets", tca>> >>),
            at,
            UnmappedItems(u)) :
        m \in {MetaYears(0), MetaYears(2)},
        sc \in {Blank, Field(Y2(Str(s_12), Str(s_12))), Field(Y1(Str(s_abc))),
                Field(Y1(Str(s_acc_eq)))},
        te \in {Blank, Field(Y1(Str(s_400))), Field(Y1(Str(s_398)))},
        lt \in {Blank, Field(Y1(Str(s_600)))},
        at \in {Blank, Field(Y1(Str(s_1000)))},
        inv \in {Blank, Field(Y1(Str(s_600)))},
        tca \in {Blank, Field(Y1(Str(s_1000))), Field(Y1(Str(s_1012)))},
        u \in {<<>>, <<Unmapped(Str(l_TotalReserves))>>, <<Unmapped(Null)>>}}

Inputs == FamilyA \cup FamilyB1 \cup FamilyB2 \cup FamilyB3 \cup FamilyC \cup FamilyD \cup FamilyE

-----------------------------------------------------------------------------
(* AccuracyCalculator: Python values of the two documents *)

\* json.load gives None, str, int, float, bool, dict and list.  An int is
\* Num(n); Float(n) is the float of integral value n (1.0 is Float(1)).
Bool(b) == [t |-> "bool", b |-> b]

Float(n) == [t |-> "float", n |-> n]

IsNumber(v) == v.t \in {"num", "float", "bool"}

NumberOf(v) == IF v.t = "bool" THEN (IF v.b THEN 1 ELSE 0) ELSE v.n

\* v1 == v2 in Python: numbers compare by value whatever their type (True == 1,
\* 1 == 1.0), strings and lists element by element, dicts as sets of items.
RECURSIVE py_eq(_, _)
py_eq(v1, v2) ==
    IF IsNumber(v1) /\ IsNumber(v2) THEN NumberOf(v1) = NumberOf(v2)
    ELSE IF v1.t # v2.t THEN FALSE
    ELSE IF v1.t = "list"
         THEN /\ Len(v1.xs) = Len(v2.xs)
              /\ \A i \in 1..Len(v1.xs) : py_eq(v1.xs[i], v2.xs[i])
    ELSE IF v1.t = "map"
         THEN /\ Len(v1.kv) = Len(v2.kv)
              /\ \A i \in 1..Len(v1.kv) :
                    /\ HasKey(v2, v1.kv[i][1])
                    /\ py_eq(v1.kv[i][2], Item(v2, v1.kv[i][1]))
    ELSE v1 = v2

\* `x is None or x == ""`
IsNoneOrEmpty(v) == v.t = "null" \/ (v.t = "str" /\ v.s = <<>>)

\* The characters of a key of the documents.
KeyText(k) ==
    CASE k = "value" -> <<"v","a","l","u","e">>
      [] k = "confidence" -> <<"c","o","n","f","i","d","e","n","c","e">>
      [] k = "root" -> <<"r","o","o","t">>
      [] k = "name" -> <<"n","a","m","e">>
      [] k = "gross" -> <<"g","r","o","s","s">>
      [] k = "net" -> <<"n","e","t">>
      [] k = "employees" -> <<"e","m","p","l","o","y","e","e","s">>
      [] k = "totals" -> <<"t","o","t","a","l","s">>
      [] k = "rows" -> <<"r","o","w","s">>
      [] k = "company" -> <<"c","o","m","p","a","n","y">>
      [] k = "totals.gross" -> <<"t","o","t","a","l","s",".","g","r","o","s","s">>
      [] k = "rows[0]" -> <<"r","o","w","s","[","0","]">>
      [] k = "extraction_timestamp" -> <<"e","x","t","r","a","c","t","i","o","n","_","t","i","m","e","s","t","a","m","p">>
      [] k = "source_file" -> <<"s","o","u","r","c","e","_","f","i","l","e">>
      [] k = "document_type" -> <<"d","o","c","u","m","e","n","t","_","t","y","p","e">>
      [] OTHER -> KeyChars(k)

\* repr of a str made of letters, digits, blanks and punctuation other than
\* quotes and backslashes: the characters between single quotes.
Quoted(s) == <<"'">> \o s \o <<"'">>

IntChars(n) == (IF n < 0 THEN <<"-">> ELSE <<>>) \o NatChars(Abs(n))

RECURSIVE py_repr(_)
RECURSIVE repr_items(_, _)
RECURSIVE repr_pairs(_, _)
\* repr(v), which str() of a list or of a dict applies to what it holds.
py_repr(v) ==
    CASE v.t = "null" -> <<"N","o","n","e">>
      [] v.t = "bool" -> IF v.b THEN <<"T","r","u","e">> ELSE <<"F","a","l","s","e">>
      [] v.t = "num" -> IntChars(v.n)
      [] v.t = "float" -> FloatStr(v.n)
      [] v.t = "str" -> Quoted(v.s)
      [] v.t = "list" -> <<"[">> \o repr_items(v.xs, 1) \o <<"]">>
      [] v.t = "map" -> <<"{">> \o repr_pairs(v.kv, 1) \o <<"}">>

repr_items(xs, i) ==
    IF i > Len(xs) THEN <<>>
    ELSE (IF i > 1 THEN <<",", " ">> ELSE <<>>) \o py_repr(xs[i]) \o repr_items(xs, i + 1)

repr_pairs(kv, i) ==
    IF i > Len(kv) THEN <<>>
    ELSE (IF i > 1 THEN <<",", " ">> ELSE <<>>) \o Quoted(KeyText(kv[i][1])) \o <<":", " ">>
         \o py_repr(kv[i][2]) \o repr_pairs(kv, i + 1)

\* str(v)
py_str(v) == IF v.t = "str" THEN v.s ELSE py_repr(v)

-----------------------------------------------------------------------------------------------------------------------------------------------------
(* float(): decimal strings to IEEE 754 doubles, and the subtraction of doubles. *)
(* A double of the model is a sign and a magnitude.  The magnitude is a fixed-   *)
(* point binary number of Limbs digits in base 2^LimbBits, most significant      *)
(* first, IntLimbs of them before the binary point: 28 bits of whole part and    *)
(* 70 bits of fraction.  Every double from 0.0001 up to 2^28 is such a number    *)
(* with at most MantissaBits significant bits.                                   *)

MantissaBits == 53

LimbBits == 14

Limbs == 7

IntLimbs == 2

Width == Limbs * LimbBits

RECURSIVE Pow(_, _)
Pow(b, n) == IF n = 0 THEN 1 ELSE b * Pow(b, n - 1)

Base == Pow(2, LimbBits)

\* float(s) accepts, of the strings of the model (letters, digits, sign, point,
\* comma, blanks): surrounding whitespace, an optional sign, then digits with at
\* most one decimal point and at least one digit.
DecimalBody(s) ==
    LET b == float_strip(s)
    IN IF b # <<>> /\ Head(b) \in {"+", "-"} THEN Tail(b) ELSE b

PointAt(u) == IF \E i \in 1..Len(u) : u[i] = "." THEN CHOOSE i \in 1..Len(u) : u[i] = "." ELSE Len(u) + 1

WholeDigits(u) == SubSeq(u, 1, PointAt(u) - 1)

FractionDigits(u) == SubSeq(u, PointAt(u) + 1, Len(u))

\* float(s) does not raise ValueError
decimal_ok(s) ==
    LET u == DecimalBody(s)
    IN /\ \A i \in 1..Len(u) : u[i] \in Digits \cup {"."}
       /\ Len(SelectSeq(u, LAMBDA c : c = ".")) <= 1
       /\ Len(SelectSeq(u, LAMBDA c : c \in Digits)) >= 1

IsNegative(s) == LET b == float_strip(s) IN b # <<>> /\ Head(b) = "-"

\* The whole part n, in IntLimbs digits.
int_limbs(n) == [i \in 1..IntLimbs |-> (n \div Pow(Base, IntLimbs - i)) % Base]

\* The first k digits of the expansion of r / d in base 2^LimbBits, for 0 <= r < d.
RECURSIVE frac_limbs(_, _, _)
frac_limbs(r, d, k) ==
    IF k = 0 THEN <<>>
    ELSE <<(r * Base) \div d>> \o frac_limbs((r * Base) % d, d, k - 1)

\* What is left of r / d after those k digits.
RECURSIVE frac_rem(_, _, _)
frac_rem(r, d, k) == IF k = 0 THEN r ELSE frac_rem((r * Base) % d, d, k - 1)

Zero == [i \in 1..Limbs |-> 0]

\* Bit p of a magnitude, p = 1 being the most significant of the Width bits.
BitAt(m, p) == (m[((p - 1) \div LimbBits) + 1] \div Pow(2, LimbBits - 1 - ((p - 1) % LimbBits))) % 2

\* The position of the leading one; Width + 1 for zero.
LeadingOne(m) ==
    IF m = Zero THEN Width + 1
    ELSE LET i == CHOOSE i \in 1..Limbs : m[i] # 0 /\ \A j \in 1..(i - 1) : m[j] = 0
             o == CHOOSE o \in 0..(LimbBits - 1) : m[i] \div Pow(2, LimbBits - 1 - o) = 1
         IN LimbBits * (i - 1) + o + 1

RECURSIVE add_from(_, _, _, _)
add_from(a, b, i, carry) ==
    IF i = 0 THEN <<>>
    ELSE add_from(a, b, i - 1, (a[i] + b[i] + carry) \div Base) \o <<(a[i] + b[i] + carry) % Base>>

RECURSIVE sub_from(_, _, _, _)
sub_from(a, b, i, borrow) ==
    IF i = 0 THEN <<>>
    ELSE sub_from(a, b, i - 1, IF a[i] - b[i] - borrow < 0 THEN 1 ELSE 0)
         \o <<(a[i] - b[i] - borrow + Base) % Base>>

\* m times the small number k
RECURSIVE mul_from(_, _, _, _)
mul_from(m, k, i, carry) ==
    IF i = 0 THEN <<>>
    ELSE mul_from(m, k, i - 1, (m[i] * k + carry) \div Base) \o <<(m[i] * k + carry) % Base>>

\* The bits of m down to position last; the bits below it are cleared.
truncate_at(m, last) ==
    [i \in 1..Limbs |->
        IF LimbBits * i <= last THEN m[i]
        ELSE IF LimbBits * (i - 1) >= last THEN 0
        ELSE (m[i] \div Pow(2, LimbBits * i - last)) * Pow(2, LimbBits * i - last)]

\* One unit in position last.
unit_at(last) ==
    [i \in 1..Limbs |->
        IF LimbBits * (i - 1) < last /\ last <= LimbBits * i
        THEN Pow(2, LimbBits * i - last) ELSE 0]

\* Round to nearest, ties to even, at MantissaBits significant bits; inexact says
\* that the exact value lies above m.
round_to_double(m, inexact) ==
    LET last == LeadingOne(m) + MantissaBits - 1
    IN IF last >= Width THEN m
       ELSE LET more == inexact \/ \E p \in (last + 2)..Width : BitAt(m, p) = 1
                up == BitAt(m, last + 1) = 1 /\ (more \/ BitAt(m, last) = 1)
            IN IF up THEN add_from(truncate_at(m, last), unit_at(last), Limbs, 0)
               ELSE truncate_at(m, last)

\* The double nearest to n / d.
double_of(n, d) ==
    round_to_double(int_limbs(n \div d) \o frac_limbs(n % d, d, Limbs - IntLimbs),
                    frac_rem(n % d, d, Limbs - IntLimbs) # 0)

\* float(s), when it does not raise
py_float(s) ==
    LET u == DecimalBody(s)
    IN [neg |-> IsNegative(s),
        mag |-> double_of(DigitsValue(WholeDigits(u) \o FractionDigits(u)),
                          Pow(10, Len(FractionDigits(u))))]

\* a < b, as magnitudes
less_than(a, b) ==
    \E i \in 1..Limbs : a[i] < b[i] /\ \A j \in 1..(i - 1) : a[j] = b[j]

\* abs(x - y): the exact difference, rounded to a double
abs_difference(x, y) ==
    IF x.neg # y.neg /\ x.mag # Zero /\ y.mag # Zero
    THEN round_to_double(add_from(x.mag, y.mag, Limbs, 0), FALSE)
    ELSE IF less_than(x.mag, y.mag)
         THEN round_to_double(sub_from(y.mag, x.mag, Limbs, 0), FALSE)
         ELSE round_to_double(sub_from(x.mag, y.mag, Limbs, 0), FALSE)

\* The literal 0.01
tolerance == double_of(1, 100)

-----------------------------------------------------------------------------
(* _values_match and compare_values *)

\* abs(num1 - num2) < 0.01
within_tolerance(num1, num2) == less_than(abs_difference(num1, num2), tolerance)

\* Mutant: the strings are compared as they are.
same_text_exact(val1, val2) == py_str(val1) = py_str(val2)

\* str(val1).strip().lower() == str(val2).strip().lower()
same_text(val1, val2) == lower(strip(py_str(val1))) = lower(strip(py_str(val2)))

values_match(val1, val2) ==
    IF py_eq(val1, val2) THEN TRUE
    ELSE IF /\ val1.t = "str"
            /\ val2.t = "str"
            /\ decimal_ok(RemoveChars(val1.s, {","}))
            /\ decimal_ok(RemoveChars(val2.s, {","}))
         THEN within_tolerance(py_float(RemoveChars(val1.s, {","})),
                               py_float(RemoveChars(val2.s, {","})))
         ELSE same_text(val1, val2)

\* Mutant: a populated extraction against an empty ground truth counts as correct.
status_of_values_lenient(extracted_value, ground_truth_value) ==
    IF IsNoneOrEmpty(ground_truth_value)
    THEN (IF IsNoneOrEmpty(extracted_value) THEN "correct_null" ELSE "correct")
    ELSE IF IsNoneOrEmpty(extracted_value) THEN "missing"
    ELSE IF values_match(extracted_value, ground_truth_value) THEN "correct" ELSE "incorrect"

status_of_values(extracted_value, ground_truth_value) ==
    IF IsNoneOrEmpty(ground_truth_value)
    THEN (IF IsNoneOrEmpty(extracted_value) THEN "correct_null" ELSE "false_positive")
    ELSE IF IsNoneOrEmpty(extracted_value) THEN "missing"
    ELSE IF values_match(extracted_value, ground_truth_value) THEN "correct" ELSE "incorrect"

compare_values(extracted_value, ground_truth_value, field_path) ==
    [field_path |-> field_path,
     extracted_value |-> extracted_value,
     ground_truth_value |-> ground_truth_value,
     status |-> status_of_values(extracted_value, ground_truth_value)]

-----------------------------------------------------------------------------
(* validate_mapped_data, one action per statement *)

\* The AccuracyCalculator before any document is loaded.
NoDocument == [t |-> "absent"]

NoResults == [total_fields |-> 0, correct_fields |-> 0, incorrect_fields |-> 0, missing_fields |-> 0, accuracy_percentage |-> Zero, field_details |-> <<>>]

NoComparison == [status |-> "none"]

NoSummary == [status |-> "none"]

\* process_pdf has not been called.
pipeline_unused ==
    /\ pages = <<>>
    /\ position = 0
    /\ interim_data = Null
    /\ attempts = <<>>
    /\ summary = NoSummary

differ_unused ==
    /\ extracted = NoDocument
    /\ ground_truth = NoDocument
    /\ results = NoResults
    /\ pending = <<>>
    /\ comparison = NoComparison
    /\ results_ref = 1
    /\ pipeline_unused

\* FinancialValidator.__init__: self.errors = [] and self.warnings = [] are two
\* new list objects, 1 and 2.
validator_init ==
    /\ errors = <<>>
    /\ warnings = <<>>
    /\ errors_ref = 1
    /\ warnings_ref = 2
    /\ heap = <<>>
    /\ history = <<>>
    /\ calls = 0
    /\ todo = {}
    /\ raised = 0
    /\ validation_result = NoResult

Init ==
    /\ mapped_data \in Inputs
    /\ pc = "idle"
    /\ validator_init
    /\ differ_unused

\* A check ran: its messages are appended; an exception leaves validate_mapped_data.
Apply(k, out, next) ==
    /\ errors' = errors \o out.errs
    /\ warnings' = warnings \o out.warns
    /\ pc' = IF out.raised THEN "raised" ELSE next
    /\ raised' = IF out.raised THEN k ELSE raised
    /\ UNCHANGED <<mapped_data, validation_result, errors_ref, warnings_ref, heap, history, calls, todo>>
    /\ UNCHANGED <<differ_vars, pipeline_vars>>

\* The identity of the next list object to be allocated.
NextFree == 1 + Cardinality(DOMAIN heap \cup {errors_ref, warnings_ref})

\* Mutant: the list is emptied in place (self.errors.clear()), keeping its identity.
fresh_list_cleared(bound, free) == bound

\* self.errors = []: the attribute is bound to a newly allocated list object.
fresh_list(bound, free) == free

\* self.errors = []; self.warnings = []   The lists bound until now keep their
\* contents for whoever still holds them.
reset_lists ==
    /\ errors_ref' = fresh_list(errors_ref, NextFree)
    /\ warnings_ref' = fresh_list(warnings_ref, NextFree + 1)
    /\ heap' = [r \in DOMAIN heap \cup {errors_ref, warnings_ref} |->
                   IF r = errors_ref THEN errors
                   ELSE IF r = warnings_ref THEN warnings ELSE heap[r]]
    /\ errors' = <<>>
    /\ warnings' = <<>>

validate_mapped_data ==
    /\ pc = "idle"
    /\ reset_lists
    /\ pc' = "check1"
    /\ calls' = calls + 1
    /\ UNCHANGED <<mapped_data, raised, validation_result, history, todo>>
    /\ UNCHANGED <<differ_vars, pipeline_vars>>

validate_accounting_equation ==
    /\ pc = "check1"
    /\ Apply(1, validate_accounting_equation_out(mapped_data), "check2")

validate_numeric_values ==
    /\ pc = "check2"
    /\ Apply(2, validate_numeric_values_out(mapped_data), "check3")

validate_subtotals ==
    /\ pc = "check3"
    /\ Apply(3, validate_subtotals_out(mapped_data), "check4")

validate_consistency ==
    /\ pc = "check4"
    /\ Apply(4, validate_consistency_out(mapped_data), "check5")

validate_unmapped_items ==
    /\ pc = "check5"
    /\ Apply(5, validate_unmapped_items_out(mapped_data), "compile")

\* The result dictionary is built from the lists themselves ('errors': self.errors),
\* so what the caller receives refers to the two list objects.
compile ==
    /\ pc = "compile"
    /\ validation_result' = compile_results(errors, warnings)
    /\ history' = Append(history, [schema |-> mapped_data,
                                   result |-> compile_results(errors, warnings),
                                   errors |-> errors_ref,
                                   warnings |-> warnings_ref])
    /\ pc' = "returned"
    /\ UNCHANGED <<mapped_data, errors, warnings, raised, errors_ref, warnings_ref, heap, calls, todo>>
    /\ UNCHANGED <<differ_vars, pipeline_vars>>

Next ==
    \/ validate_mapped_data
    \/ validate_accounting_equation
    \/ validate_numeric_values
    \/ validate_subtotals
    \/ validate_consistency
    \/ validate_unmapped_items
    \/ compile

Spec == Init /\ [][Next]_vars

-----------------------------------------------------------------------------
(* Reading a run *)

\* The check a message kind comes from.
CheckOf(kind) ==
    CASE kind \in {"accounting_equation", "cannot_validate", "error_validating"} -> 1
      [] kind = "non_numeric" -> 2
      [] kind = "subtotal" -> 3
      [] kind = "missing_years" -> 4
      [] kind \in {"high_unmapped", "important_unmapped"} -> 5

ErrorsBy(k) == SelectSeq(errors, LAMBDA e : CheckOf(e.kind) = k)

WarningsBy(k) == SelectSeq(warnings, LAMBDA w : CheckOf(w.kind) = k)

\* How far the call got; for a call that raised, the check that raised.
StepOf ==
    CASE pc = "idle" -> 0
      [] pc = "check1" -> 1
      [] pc = "check2" -> 2
      [] pc = "check3" -> 3
      [] pc = "check4" -> 4
      [] pc = "check5" -> 5
      [] pc = "compile" -> 6
      [] pc = "returned" -> 7
      [] pc = "raised" -> raised

\* Check k ran to its end.
Completed(k) == StepOf > k

\* Check k raised.
RaisedIn(k) == pc = "raised" /\ raised = k

Count(seq, P(_)) == Len(SelectSeq(seq, P))

\* The structure the claims speak of, read off the schema.
FieldAt(container, k) ==
    IF container = Absent THEN Absent
    ELSE IF container.t # "map" THEN Exc
    ELSE IF HasKey(container, k) THEN Item(container, k) ELSE Absent

YearsOf(field_obj) == IF HasKey(field_obj, "years") THEN Item(field_obj, "years") ELSE EmptyDict

\* "parses as a number" once all commas and all blanks are removed
ParsesWithoutBlanks(v) ==
    v.t = "num" \/ (v.t = "str" /\ float_ok(RemoveChars(v.s, {",", " "})))

\* "parses as a number" once commas and surrounding whitespace are removed
ParsesTrimmed(v) ==
    v.t = "num" \/ (v.t = "str" /\ float_ok(strip(RemoveChars(v.s, {","}))))

Populated(v) == v # Null /\ v # Str(<<>>)

\* The (section, field, year, value) entries of a section that is a mapping.
SectionEntries(md, s) ==
    IF ~HasKey(md, s) \/ Item(md, s).t # "map" THEN {}
    ELSE LET kv == Item(md, s).kv
         IN UNION {IF kv[i][2].t = "map" /\ YearsOf(kv[i][2]).t = "map"
                   THEN {<<s, kv[i][1], YearsOf(kv[i][2]).kv[j][1], YearsOf(kv[i][2]).kv[j][2]>> :
                            j \in 1..Len(YearsOf(kv[i][2]).kv)}
                   ELSE {} : i \in 1..Len(kv)}

\* The (section, field name, field) leaf fields of a section that is a mapping.
SectionFields(md, s) ==
    IF ~HasKey(md, s) \/ Item(md, s).t # "map" THEN {}
    ELSE LET kv == Item(md, s).kv
         IN {<<s, kv[i][1], kv[i][2]>> : i \in {j \in 1..Len(kv) : kv[j][2].t = "map"}}

\* Every listed section present is a mapping whose fields' `years` are mappings.
SectionsShaped(md, sections) ==
    \A s \in sections :
        HasKey(md, s) =>
            /\ Item(md, s).t = "map"
            /\ \A f \in SectionFields(md, s) : YearsOf(f[3]).t = "map"

StructuralSections ==
    {"Equity", "NonCurrentLiabilities", "CurrentLiabilities", "NonCurrentAssets", "CurrentAssets"}

-----------------------------------------------------------------------------
(* C1 *)

\* C1: for every schema that is a mapping, sections, fields or `years` absent,
\* null or unpopulated included, validate_mapped_data returns a result and
\* never raises.
C1_NeverRaises == pc # "raised"

-----------------------------------------------------------------------------
(* C2 *)

\* C2: in every result, accounting_equation_valid is false if and only if
\* check 1 appended an error during the call.
C2_ValidIffNoEquationError ==
    pc = "returned" =>
        (validation_result.accounting_equation_valid = FALSE <=> ErrorsBy(1) # <<>>)

-----------------------------------------------------------------------------
(* C3 *)

\* C3: every returned result has total_errors = len(errors), total_warnings =
\* len(warnings), and status FAIL exactly when total_errors > 0, PASS otherwise;
\* the result lists are the accumulated ones.
C3_ResultCounts ==
    pc = "returned" =>
        /\ validation_result.errors = errors
        /\ validation_result.warnings = warnings
        /\ validation_result.total_errors = Len(validation_result.errors)
        /\ validation_result.total_warnings = Len(validation_result.warnings)
        /\ validation_result.status \in {"PASS", "FAIL"}
        /\ (validation_result.status = "FAIL" <=> validation_result.total_errors > 0)

C3_Witness ==
    /\ pc = "returned"
    /\ validation_result.status = "PASS"
    /\ validation_result.total_errors = 0
    /\ validation_result.total_warnings >= 2

-----------------------------------------------------------------------------
(* C4 *)

AllResolve(md) ==
    /\ assets_total_of(md).t = "num"
    /\ liab_total_of(md).t = "num"
    /\ equity_total_of(md).t = "num"

EquationGap(md) ==
    Abs(assets_total_of(md).n - (liab_total_of(md).n + equity_total_of(md).n))

-----------------------------------------------------------------------------
(* C5 *)

\* AssetsTotal 1000, LiabilitiesTotal 600, Equity.TotalEquity as given.
Scenario(total_equity) ==
    Schema(Absent, Section(<< <<"TotalEquity", Field(Y1(Str(total_equity)))>> >>),
           Absent, Absent, Field(Y1(Str(s_600))), Absent, Absent,
           Field(Y1(Str(s_1000))), Absent)

BalancedScenarioHolds ==
    mapped_data = Scenario(s_400) =>
        /\ validation_result.accounting_equation_valid
        /\ ErrorsBy(1) = <<>>

\* exactly one error, the accounting-equation one, naming 1000, 600 and the equity
OneEquationError(total_equity) ==
    /\ Len(errors) = 1
    /\ Len(ErrorsBy(1)) = 1
    /\ Contains(txt_AccEqFailed, ErrorText(errors[1]))
    /\ Contains(s_1000, ErrorText(errors[1]))
    /\ Contains(s_600, ErrorText(errors[1]))
    /\ Contains(total_equity, ErrorText(errors[1]))
    /\ validation_result.status = "FAIL"

\* C5 (as stated): with totals 1000 / 600 / 400 the result has
\* accounting_equation_valid = true and no check-1 error; with TotalEquity "399"
\* there is exactly one "Accounting equation failed" error and status = FAIL.
C5_Original ==
    pc = "returned" =>
        /\ BalancedScenarioHolds
        /\ (mapped_data = Scenario(s_399) => OneEquationError(s_399))

\* C5 (amended): with totals 1000 / 600 / 400 the result has
\* accounting_equation_valid = true and no check-1 error; TotalEquity "399" is
\* within the tolerance of 1: no error, status = PASS; TotalEquity "398" gives
\* exactly one "Accounting equation failed" error naming 1000.0, 600.0, 398.0,
\* and status = FAIL.
C5_Scenario ==
    pc = "returned" =>
        /\ BalancedScenarioHolds
        /\ (mapped_data = Scenario(s_399) =>
                errors = <<>> /\ validation_result.status = "PASS")
        /\ (mapped_data = Scenario(s_398) => OneEquationError(s_398))

C5_Witness ==
    /\ pc = "returned"
    /\ mapped_data = Scenario(s_398)
    /\ validation_result.status = "FAIL"

-----------------------------------------------------------------------------
(* C6 *)

TotalsFields(md) ==
    <<FieldAt(md, "AssetsTotal"), FieldAt(md, "LiabilitiesTotal"),
      FieldAt(FieldAt(md, "Equity"), "TotalEquity")>>

HoldsNumber(years) == \E i \in 1..Len(years.kv) : ParsesWithoutBlanks(years.kv[i][2])

\* the field resolves to a representative value
Resolves(f) ==
    f.t = "map" /\ YearsOf(f).t = "map" /\ HoldsNumber(YearsOf(f))

\* the field is absent, its `years` is empty, or every year value is null,
\* empty or unparsable
Unresolvable(f) ==
    f = Absent \/ (f.t = "map" /\ YearsOf(f).t = "map" /\ ~HoldsNumber(YearsOf(f)))

SomeTotalUnresolvable(md) ==
    /\ \A i \in 1..3 : Resolves(TotalsFields(md)[i]) \/ Unresolvable(TotalsFields(md)[i])
    /\ \E i \in 1..3 : Unresolvable(TotalsFields(md)[i])

\* C6: if any of the three representative values cannot be resolved (field
\* absent, years empty, or every year value null, empty or unparsable), check 1
\* appends exactly one warning, "Cannot validate accounting equation", and no
\* error; with no error from another check the status is PASS.
C6_MissingTotalsWarn ==
    (Completed(1) /\ SomeTotalUnresolvable(mapped_data)) =>
        /\ WarningsBy(1) = <<CannotValidateWarning>>
        /\ ErrorsBy(1) = <<>>
        /\ (pc = "returned" /\ ErrorsBy(2) = <<>> => validation_result.status = "PASS")

C6_Witness ==
    /\ pc = "returned"
    /\ Resolves(TotalsFields(mapped_data)[1])
    /\ TotalsFields(mapped_data)[2] = Field(EmptyDict)
    /\ Resolves(TotalsFields(mapped_data)[3])
    /\ WarningsBy(1) = <<CannotValidateWarning>>
    /\ validation_result.status = "PASS"

-----------------------------------------------------------------------------
(* C7 *)

StructuralEntries(md) == UNION {SectionEntries(md, s) : s \in StructuralSections}

ErrorsFor(e) ==
    Count(errors, LAMBDA x : x.kind = "non_numeric" /\ x.section = e[1]
                             /\ x.field_name = e[2] /\ x.year = e[3] /\ x.value = e[4])

\* one error for each populated entry that does not parse, none for any other
NumericCheckIs(md, Parses(_)) ==
    /\ \A e \in StructuralEntries(md) :
          ErrorsFor(e) = (IF Populated(e[4]) /\ ~Parses(e[4]) THEN 1 ELSE 0)
    /\ Len(ErrorsBy(2)) =
          Cardinality({e \in StructuralEntries(md) : Populated(e[4]) /\ ~Parses(e[4])})
    /\ \A i \in 1..Len(errors) :
          errors[i].kind = "non_numeric" => errors[i].section \in StructuralSections

Check2Ended == Completed(2) \/ RaisedIn(2)

\* C7 (as stated): check 2 appends exactly one error for each (section, field,
\* year) entry under the five structural sections whose value is non-null,
\* non-empty and fails to parse as a number after stripping thousands separators
\* and surrounding whitespace (so "1 000" is an error), and none for any other
\* entry; AssetsTotal and LiabilitiesTotal are never examined.
C7_Original ==
    (Check2Ended /\ SectionsShaped(mapped_data, StructuralSections)) =>
        /\ ~RaisedIn(2)
        /\ NumericCheckIs(mapped_data, ParsesTrimmed)

\* C7 (amended): check 2 appends exactly one error for each (section, field,
\* year) entry under the five structural sections whose value is non-null,
\* non-empty and fails to parse as a number after removing every comma and
\* every blank, internal ones included (so "1 000" is accepted as 1000), and
\* none for any other entry; AssetsTotal and LiabilitiesTotal are never examined.
C7_NumericCheck ==
    (Check2Ended /\ SectionsShaped(mapped_data, StructuralSections)) =>
        /\ ~RaisedIn(2)
        /\ NumericCheckIs(mapped_data, ParsesWithoutBlanks)

C7_Witness ==
    /\ Completed(2)
    /\ SectionsShaped(mapped_data, StructuralSections)
    /\ \E e \in StructuralEntries(mapped_data) : e[4] = Str(s_1sp000) /\ ErrorsFor(e) = 0
    /\ \E e \in StructuralEntries(mapped_data) : e[4] = Str(s_abc) /\ ErrorsFor(e) = 1
    /\ Len(ErrorsBy(2)) = 1

-----------------------------------------------------------------------------
(* C8 *)

CurrentAssetsLeaves(md) == SectionFields(md, "CurrentAssets")

\* TotalCurrentAssets and every sibling leaf field have a representative value
SubtotalResolved(md) ==
    /\ \E f \in CurrentAssetsLeaves(md) : f[2] = "TotalCurrentAssets"
    /\ \E f \in CurrentAssetsLeaves(md) : f[2] # "TotalCurrentAssets"
    /\ \A f \in CurrentAssetsLeaves(md) : Resolves(f[3])

TotalOf(md) ==
    extract_numeric_value(YearsOf(Item(Item(md, "CurrentAssets"), "TotalCurrentAssets"))).n

ComponentSum(md) == Sum(components_of(Item(md, "CurrentAssets").kv, 1))

\* C8: when TotalCurrentAssets and every sibling leaf field have a
\* representative value, check 3 appends exactly one warning if and only if
\* abs(total - componentSum) > 1% of componentSum, a total of zero included.
C8_SubtotalIff ==
    (Completed(3) /\ SubtotalResolved(mapped_data)) =>
        Len(WarningsBy(3)) =
            (IF 100 * Abs(TotalOf(mapped_data) - ComponentSum(mapped_data))
                    > ComponentSum(mapped_data)
             THEN 1 ELSE 0)

-----------------------------------------------------------------------------
(* C9 *)

MetadataYears(md) == FieldAt(FieldAt(md, "metadata"), "years")

\* metadata, when present, is a mapping whose `years`, when present, is a list,
\* and Equity / NonCurrentAssets are shaped as sections
ConsistencyShaped(md) ==
    /\ MetadataYears(md) = Absent \/ MetadataYears(md).t = "list"
    /\ SectionsShaped(md, {"Equity", "NonCurrentAssets"})

ExpectedYears(md) == IF MetadataYears(md) = Absent THEN 0 ELSE Len(MetadataYears(md).xs)

ConsistencyLeaves(md) == SectionFields(md, "Equity") \cup SectionFields(md, "NonCurrentAssets")

EntryCount(f) == Len(YearsOf(f).kv)

PopulatedCount(f) ==
    Cardinality({j \in 1..Len(YearsOf(f).kv) : Populated(YearsOf(f).kv[j][2])})

WarningsFor(s, name) ==
    Count(warnings, LAMBDA w : w.kind = "missing_years" /\ w.section = s /\ w.field_name = name)

ConsistencyCheckIs(md, Counted(_)) ==
    /\ ExpectedYears(md) < 2 => WarningsBy(4) = <<>>
    /\ ExpectedYears(md) >= 2 =>
          /\ \A f \in ConsistencyLeaves(md) :
                WarningsFor(f[1], f[2]) = (IF Counted(f[3]) < ExpectedYears(md) THEN 1 ELSE 0)
          /\ Len(WarningsBy(4)) =
                Cardinality({f \in ConsistencyLeaves(md) : Counted(f[3]) < ExpectedYears(md)})

Check4Ended == Completed(4) \/ RaisedIn(4)

\* C9 (as stated): check 4 appends warnings only when metadata.years lists 2 or
\* more years; then, for each leaf field under Equity and NonCurrentAssets (and
\* no other section), exactly one warning if and only if the number of populated
\* year entries (value non-null and non-empty) is less than the number of years.
C9_Original ==
    (Check4Ended /\ ConsistencyShaped(mapped_data)) =>
        /\ ~RaisedIn(4)
        /\ ConsistencyCheckIs(mapped_data, PopulatedCount)

\* C9 (amended): check 4 appends warnings only when metadata.years lists 2 or
\* more years; then, for each leaf field under Equity and NonCurrentAssets (and
\* no other section), exactly one warning if and only if the number of entries
\* of the field's `years` mapping, null and empty values counted, is less than
\* the number of years.
C9_Consistency ==
    (Check4Ended /\ ConsistencyShaped(mapped_data)) =>
        /\ ~RaisedIn(4)
        /\ ConsistencyCheckIs(mapped_data, EntryCount)

C9_Witness ==
    /\ Completed(4)
    /\ ConsistencyShaped(mapped_data)
    /\ ExpectedYears(mapped_data) = 2
    /\ \E f \in ConsistencyLeaves(mapped_data) :
          EntryCount(f[3]) = 2 /\ PopulatedCount(f[3]) = 1 /\ WarningsFor(f[1], f[2]) = 0
    /\ \E f \in ConsistencyLeaves(mapped_data) :
          EntryCount(f[3]) = 1 /\ WarningsFor(f[1], f[2]) = 1

-----------------------------------------------------------------------------
(* C10 *)

UnmappedList(md) == FieldAt(FieldAt(md, "unmapped_items"), "items")

ItemsOf(md) == IF UnmappedList(md) = Absent THEN <<>> ELSE UnmappedList(md).xs

\* unmapped_items.items, when present, is a list of mappings whose label_raw,
\* when present, is a string
UnmappedShaped(md) ==
    /\ UnmappedList(md) = Absent \/ UnmappedList(md).t = "list"
    /\ \A i \in 1..Len(ItemsOf(md)) :
          /\ ItemsOf(md)[i].t = "map"
          /\ FieldAt(ItemsOf(md)[i], "label_raw") = Absent
             \/ FieldAt(ItemsOf(md)[i], "label_raw").t = "str"

LabelText(item) ==
    IF HasKey(item, "label_raw") THEN Item(item, "label_raw").s ELSE <<>>

Keywords == {kw_total, kw_assets, kw_liabilities, kw_equity}

\* the label contains a keyword, letter case ignored
MentionsKeyword(label) ==
    \E kw \in Keywords :
        \E i \in 0..(Len(label) - Len(kw)) :
            \A j \in 1..Len(kw) : LowerOf(label[i + j]) = kw[j]

ImportantWarnings(label) ==
    Count(warnings, LAMBDA w : w.kind = "important_unmapped" /\ w.label_raw = Str(label))

ItemsLabelled(md, label) ==
    Cardinality({i \in 1..Len(ItemsOf(md)) : LabelText(ItemsOf(md)[i]) = label})

Check5Ended == Completed(5) \/ RaisedIn(5)

\* C10: check 5 appends the high-count warning if and only if there are more
\* than 10 unmapped items (exactly 10 give none) and, whatever the count, exactly
\* one warning per item whose label_raw contains, case-insensitively, 'total',
\* 'assets', 'liabilities' or 'equity', and none for any other item; it never
\* appends an error.
C10_UnmappedTriage ==
    (Check5Ended /\ UnmappedShaped(mapped_data)) =>
        /\ ~RaisedIn(5)
        /\ Count(warnings, LAMBDA w : w.kind = "high_unmapped") =
              (IF Len(ItemsOf(mapped_data)) > 10 THEN 1 ELSE 0)
        /\ \A i \in 1..Len(ItemsOf(mapped_data)) :
              LET label == LabelText(ItemsOf(mapped_data)[i])
              IN ImportantWarnings(label) =
                    (IF MentionsKeyword(label) THEN ItemsLabelled(mapped_data, label) ELSE 0)
        /\ Count(warnings, LAMBDA w : w.kind = "important_unmapped") =
              Cardinality({i \in 1..Len(ItemsOf(mapped_data)) :
                              MentionsKeyword(LabelText(ItemsOf(mapped_data)[i]))})
        /\ errors = validate_accounting_equation_out(mapped_data).errs
                    \o validate_numeric_values_out(mapped_data).errs

C10_Witness ==
    /\ Completed(5)
    /\ Len(ItemsOf(mapped_data)) = 10
    /\ \E i \in 1..10 : LabelText(ItemsOf(mapped_data)[i]) = l_TotalReserves
    /\ \E i \in 1..10 : LabelText(ItemsOf(mapped_data)[i]) = l_MiscNote12
    /\ WarningsBy(5) = <<ImportantUnmappedWarning(Str(l_TotalReserves))>>

-----------------------------------------------------------------------------
(* validate_mapped_data as a function of the schema, and with its five checks *)
(* taken in an arbitrary order                                               *)

check_out(k, md) ==
    CASE k = 1 -> validate_accounting_equation_out(md)
      [] k = 2 -> validate_numeric_values_out(md)
      [] k = 3 -> validate_subtotals_out(md)
      [] k = 4 -> validate_consistency_out(md)
      [] k = 5 -> validate_unmapped_items_out(md)

\* The checks of `order` one after the other on empty lists; the first one that
\* raises ends the call.
RECURSIVE run_checks(_, _)
run_checks(md, order) ==
    IF order = <<>> THEN Outcome(<<>>, <<>>, FALSE)
    ELSE LET first == check_out(Head(order), md)
         IN IF first.raised THEN first
            ELSE LET rest == run_checks(md, Tail(order))
                 IN Outcome(first.errs \o rest.errs, first.warns \o rest.warns, rest.raised)

coded_order == <<1, 2, 3, 4, 5>>

\* What a call returns on a fresh instance: the result, or that it raised.
validate_mapped_data_out(md) ==
    LET r == run_checks(md, coded_order)
    IN [raised |-> r.raised,
        result |-> IF r.raised THEN NoResult ELSE compile_results(r.errs, r.warns)]

OrderInputs == FamilyE

InitAnyOrder ==
    /\ mapped_data \in OrderInputs
    /\ pc = "idle"
    /\ validator_init
    /\ differ_unused

validate_mapped_data_any_order ==
    /\ pc = "idle"
    /\ reset_lists
    /\ todo' = 1..5
    /\ pc' = "checks"
    /\ calls' = calls + 1
    /\ UNCHANGED <<mapped_data, raised, validation_result, history>>
    /\ UNCHANGED <<differ_vars, pipeline_vars>>

\* Any one of the checks that have not run yet.
run_check ==
    /\ pc = "checks"
    /\ \E k \in todo :
          LET out == check_out(k, mapped_data)
          IN /\ errors' = errors \o out.errs
             /\ warnings' = warnings \o out.warns
             /\ todo' = todo \ {k}
             /\ raised' = IF out.raised THEN k ELSE raised
             /\ pc' = IF out.raised THEN "raised"
                      ELSE IF todo = {k} THEN "compile" ELSE "checks"
    /\ UNCHANGED <<mapped_data, validation_result, errors_ref, warnings_ref, heap, history, calls>>
    /\ UNCHANGED <<differ_vars, pipeline_vars>>

NextAnyOrder ==
    \/ validate_mapped_data_any_order
    \/ run_check
    \/ compile

SpecAnyOrder == InitAnyOrder /\ [][NextAnyOrder]_vars

\* The two sequences hold the same messages the same number of times.
SameMessages(a, b) ==
    /\ Len(a) = Len(b)
    /\ \A i \in 1..Len(a) :
          Len(SelectSeq(a, LAMBDA m : m = a[i])) = Len(SelectSeq(b, LAMBDA m : m = a[i]))

\* C11: in whatever order the five checks run, the call raises exactly when the
\* call in the coded order raises, and otherwise its result has the same status,
\* the same accounting_equation_valid, the same total_errors and total_warnings
\* and the same multisets of error and warning messages as in the coded order.
C11_OrderIndependent ==
    LET coded == validate_mapped_data_out(mapped_data)
    IN /\ pc = "raised" => coded.raised
       /\ pc \in {"compile", "returned"} => ~coded.raised
       /\ pc = "returned" =>
             /\ validation_result.status = coded.result.status
             /\ validation_result.accounting_equation_valid = coded.result.accounting_equation_valid
             /\ validation_result.total_errors = coded.result.total_errors
             /\ validation_result.total_warnings = coded.result.total_warnings
             /\ SameMessages(validation_result.errors, coded.result.errors)
             /\ SameMessages(validation_result.warnings, coded.result.warnings)

\* A call returned whose checks ran in another order than the coded one: its
\* errors and its warnings both come in a different sequence.
C11_Witness ==
    /\ pc = "returned"
    /\ validation_result.errors # validate_mapped_data_out(mapped_data).result.errors
    /\ validation_result.warnings # validate_mapped_data_out(mapped_data).result.warnings
    /\ Len(validation_result.errors) >= 2
    /\ Len(validation_result.warnings) >= 2

-----------------------------------------------------------------------------
(* Several calls of validate_mapped_data on one FinancialValidator *)

MaxCalls == 3

\* Schemas with errors, with warnings, with neither, and one on which check 5 raises.
CallInputs ==
    {Schema(MetaYears(2),
            Section(<< <<"ShareCapital", sc>>, <<"TotalEquity", te>> >>),
            OneField("LongTermBorrowings", Blank),
            OneField("TradePayables", Blank),
            Field(Y1(Str(s_600))),
            OneField("IntangibleAssets", Blank),
            Section(<< <<"Inventories", Field(Y1(Str(s_600)))>>,
                       <<"TradeReceivables", Field(Y1(Str(s_400)))>>,
                       <<"TotalCurrentAssets", Field(Y1(Str(s_1012)))>> >>),
            Field(Y1(Str(s_1000))),
            UnmappedItems(u)) :
        sc \in {Field(Y2(Str(s_12), Str(s_12))), Field(Y1(Str(s_abc)))},
        te \in {Field(Y1(Str(s_400))), Field(Y1(Str(s_398)))},
        u \in {<<>>, <<Unmapped(Null)>>}}
    \cup {Schema(Absent, Absent, Absent, Absent, Absent, Absent, Absent, Absent, Absent)}

InitCalls ==
    /\ mapped_data \in CallInputs
    /\ pc = "idle"
    /\ validator_init
    /\ differ_unused

\* The instance is called again, after a call that returned or that raised.
validate_mapped_data_again ==
    /\ pc \in {"returned", "raised"}
    /\ calls < MaxCalls
    /\ mapped_data' \in CallInputs
    /\ reset_lists
    /\ calls' = calls + 1
    /\ raised' = 0
    /\ validation_result' = NoResult
    /\ pc' = "check1"
    /\ UNCHANGED <<history, todo>>
    /\ UNCHANGED <<differ_vars, pipeline_vars>>

NextCalls ==
    \/ validate_mapped_data
    \/ validate_mapped_data_again
    \/ validate_accounting_equation
    \/ validate_numeric_values
    \/ validate_subtotals
    \/ validate_consistency
    \/ validate_unmapped_items
    \/ compile

SpecCalls == InitCalls /\ [][NextCalls]_vars

\* The contents of a list object now.
Deref(ref) ==
    IF ref = errors_ref THEN errors
    ELSE IF ref = warnings_ref THEN warnings ELSE heap[ref]

\* A returned result as its caller reads it now.
Held(h) == [h.result EXCEPT !.errors = Deref(h.errors), !.warnings = Deref(h.warnings)]

ResultsKept ==
    \A i \in 1..Len(history) :
        /\ Held(history[i]) = history[i].result
        /\ ~validate_mapped_data_out(history[i].schema).raised
        /\ history[i].result = validate_mapped_data_out(history[i].schema).result

SchemaKept == mapped_data' # mapped_data => pc \in {"returned", "raised"} /\ pc' = "check1"

\* C12: across any sequence of calls on one instance, the schema passed to a call
\* stays as it was until the next call is made; every returned result is the
\* result a fresh validator computes from the call's own schema; and every result
\* returned earlier still reads as it did when it was returned.
C12_PureCalls == [][SchemaKept]_vars /\ []ResultsKept

\* Three calls were made, the second one raised, the first returned errors and
\* warnings and the third returned a different result.
C12_Witness ==
    /\ calls = 3
    /\ pc = "returned"
    /\ Len(history) = 2
    /\ history[1].result.total_errors > 0
    /\ history[1].result.total_warnings > 0
    /\ history[2].result # history[1].result

-----------------------------------------------------------------------------
(* Values compared by compare_values and _values_match *)

v_100_00 == <<"1","0","0",".","0","0">>

v_100_009 == <<"1","0","0",".","0","0","9">>

v_100_01 == <<"1","0","0",".","0","1">>

v_100_02 == <<"1","0","0",".","0","2">>

v_2 == <<"2">>

v_2_01 == <<"2",".","0","1">>

v_0_05 == <<"0",".","0","5">>

v_0_06 == <<"0",".","0","6">>

v_0 == <<"0">>

v_0_01 == <<"0",".","0","1">>

v_1c000_00 == <<"1",",","0","0","0",".","0","0">>

v_1000_009 == <<"1","0","0","0",".","0","0","9">>

v_neg5 == <<"-","5">>

v_neg5_005 == <<"-","5",".","0","0","5">>

v_5 == <<"5">>

v_pad5 == <<" ","5"," ">>

v_5_0 == <<"5",".","0">>

v_0_004 == <<"0",".","0","0","4">>

v_neg0_004 == <<"-","0",".","0","0","4">>

v_100 == <<"1","0","0">>

v_100_0 == <<"1","0","0",".","0">>

v_1 == <<"1">>

v_1_0 == <<"1",".","0">>

v_padInventories == <<" ","I","n","v","e","n","t","o","r","i","e","s"," ">>

v_inventories == <<"i","n","v","e","n","t","o","r","i","e","s">>

v_Inventories == <<"I","n","v","e","n","t","o","r","i","e","s">>

v_Receivables == <<"R","e","c","e","i","v","a","b","l","e","s">>

v_INVENTORIES == <<"I","N","V","E","N","T","O","R","I","E","S">>

v_1sp000 == <<"1"," ","0","0","0">>

v_1000 == <<"1","0","0","0">>

v_True == <<"T","r","u","e">>

v_true == <<"t","r","u","e">>

v_None == <<"N","o","n","e">>

v_emptylist == <<"[","]">>

v_list1 == <<"[","1","]">>

NumeralTexts ==
    {v_100_00, v_100_009, v_100_01, v_100_02, v_2, v_2_01, v_0_05, v_0_06, v_0, v_0_01,
     v_1c000_00, v_1000_009, v_neg5, v_neg5_005, v_5, v_pad5, v_5_0, v_0_004, v_neg0_004,
     v_100, v_100_0, v_1, v_1_0, v_1000}

OtherTexts ==
    {<<>>, v_padInventories, v_inventories, v_Inventories, v_Receivables, v_INVENTORIES,
     v_1sp000, v_True, v_true, v_None, v_emptylist, v_list1}

LeafValues ==
    {Str(s) : s \in NumeralTexts \cup OtherTexts}
    \cup {Null, Num(0), Num(1), Num(100), Num(-5), Float(1), Float(100), Bool(TRUE), Bool(FALSE),
          EmptyList, EmptyDict, List(<<Num(1)>>), List(<<Float(1)>>)}

p_field == <<"n","a","m","e">>

InitMatch ==
    /\ extracted \in LeafValues
    /\ ground_truth \in LeafValues
    /\ pc = "values"
    /\ results = NoResults
    /\ pending = <<>>
    /\ comparison = NoComparison
    /\ results_ref = 1
    /\ pipeline_unused
    /\ mapped_data = NoDocument
    /\ validator_init

\* compare_values(extracted, ground_truth, field_path)
call_compare_values ==
    /\ pc = "values"
    /\ comparison' = compare_values(extracted, ground_truth, p_field)
    /\ pc' = "compared"
    /\ UNCHANGED <<extracted, ground_truth, results, pending>>
    /\ UNCHANGED <<validator_vars, results_ref, pipeline_vars>>

\* _values_match(val1, val2), called on the two values directly
call_values_match ==
    /\ pc = "values"
    /\ comparison' = [status |-> "none", match |-> values_match(extracted, ground_truth)]
    /\ pc' = "matched"
    /\ UNCHANGED <<extracted, ground_truth, results, pending>>
    /\ UNCHANGED <<validator_vars, results_ref, pipeline_vars>>

NextMatch ==
    \/ call_compare_values
    \/ call_values_match

SpecMatch == InitMatch /\ [][NextMatch]_vars

-----------------------------------------------------------------------------
(* C13 *)

Blank_(v) == v = Null \/ v = Str(<<>>)

\* C13: compare_values returns one status, decided in this order: ground truth
\* null or empty gives correct_null when extracted is null or empty as well and
\* false_positive otherwise; else extracted null or empty gives missing; else
\* correct when the value-match predicate holds and incorrect when it does not.
\* The status is never 'unknown'.
C13_StatusOrder ==
    pc = "compared" =>
        /\ comparison.status \in {"correct_null", "false_positive", "missing", "correct", "incorrect"}
        /\ comparison.status =
              (IF Blank_(ground_truth)
               THEN (IF Blank_(extracted) THEN "correct_null" ELSE "false_positive")
               ELSE IF Blank_(extracted) THEN "missing"
               ELSE IF values_match(extracted, ground_truth) THEN "correct" ELSE "incorrect")
        /\ comparison.extracted_value = extracted
        /\ comparison.ground_truth_value = ground_truth

\* A value that would match was extracted where the ground truth is empty.
C13_Witness ==
    /\ pc = "compared"
    /\ ground_truth = Str(<<>>)
    /\ extracted = Str(v_100_00)
    /\ comparison.status = "false_positive"

-----------------------------------------------------------------------------
(* C14 *)

\* The string parses as a decimal number once its thousands separators are removed.
Numeral(v) == v.t = "str" /\ decimal_ok(RemoveChars(v.s, {","}))

\* The number a numeral denotes, in ten-thousandths.
TenThousandths(v) ==
    LET u == DecimalBody(RemoveChars(v.s, {","}))
        n == DigitsValue(WholeDigits(u) \o FractionDigits(u)) * Pow(10, 4 - Len(FractionDigits(u)))
    IN IF IsNegative(v.s) THEN -n ELSE n

\* The two numbers differ by less than 0.01.
CloserThanOneHundredth(v, w) == Abs(TenThousandths(v) - TenThousandths(w)) < 100

\* C14: for two unequal strings that both parse as decimal numbers,
\* _values_match returns true exactly when the absolute difference of the two
\* numbers is less than 0.01; a difference of exactly 0.01 does not match.
C14_ToleranceIff ==
    (pc = "matched" /\ Numeral(extracted) /\ Numeral(ground_truth) /\ extracted # ground_truth)
        => (comparison.match <=> CloserThanOneHundredth(extracted, ground_truth))

-----------------------------------------------------------------------------
(* C15 *)

Normalised(v) == lower(strip(py_str(v)))

\* C15: for two values that are not both numerals and that are not equal,
\* _values_match returns true exactly when their string representations are
\* equal after trimming surrounding whitespace and lower-casing; " Inventories "
\* matches "inventories" and "Inventories" does not match "Receivables".
C15_TextMatch ==
    pc = "matched" =>
        /\ (~(Numeral(extracted) /\ Numeral(ground_truth)) /\ ~py_eq(extracted, ground_truth))
              => (comparison.match <=> Normalised(extracted) = Normalised(ground_truth))
        /\ (extracted = Str(v_padInventories) /\ ground_truth = Str(v_inventories))
              => comparison.match
        /\ (extracted = Str(v_Inventories) /\ ground_truth = Str(v_Receivables))
              => ~comparison.match

\* Two different strings that are not numerals matched by their trimmed,
\* lower-cased text.
C15_Witness ==
    /\ pc = "matched"
    /\ extracted = Str(v_padInventories)
    /\ ground_truth = Str(v_inventories)
    /\ comparison.match

-----------------------------------------------------------------------------
(* traverse_and_compare, _record_comparison and calculate_accuracy *)

skip_fields == {"extraction_timestamp", "source_file", "document_type"}

p_root == <<"r","o","o","t">>

\* f"{path}.{key}" if path != "root" else key
key_path(path, key) == IF path # p_root THEN path \o <<".">> \o KeyText(key) ELSE KeyText(key)

\* f"{path}[{idx}]", idx counting from 0
index_path(path, idx) == path \o <<"[">> \o NatChars(idx) \o <<"]">>

\* extracted.get(key, {'value': None, 'confidence': 0.0})
missing_field == Dict(<< <<"value", Null>>, <<"confidence", Float(0)>> >>)

\* field.get('value') if isinstance(field, dict) else field
value_of_field(field) == IF field.t = "map" THEN get(field, "value", Null) ELSE field

compare_field_structure(extracted_field, ground_truth_field, field_path) ==
    compare_values(value_of_field(extracted_field), value_of_field(ground_truth_field), field_path)

\* Mutant: every mapping under a key is taken for a leaf field.
looks_like_field_any_mapping(v) == v.t = "map"

\* isinstance(ground_truth.get(key), dict) and 'value' in ground_truth.get(key, {})
looks_like_field(v) == v.t = "map" /\ HasKey(v, "value")

\* extracted[idx] if idx < len(extracted) else {}
missing_item(gt_item) == EmptyDict

\* The comparisons traverse_and_compare hands to _record_comparison, in order.
RECURSIVE traverse_and_compare(_, _, _)
RECURSIVE traverse_keys(_, _, _, _)
RECURSIVE traverse_items(_, _, _, _)
traverse_and_compare(extracted_node, ground_truth_node, path) ==
    IF ground_truth_node.t = "map" /\ extracted_node.t = "map"
    THEN traverse_keys(extracted_node, ground_truth_node, path, 1)
    ELSE IF ground_truth_node.t = "list" /\ extracted_node.t = "list"
         THEN traverse_items(extracted_node, ground_truth_node, path, 1)
         ELSE <<>>

\* for key in ground_truth.keys(), from the i-th key on
traverse_keys(extracted_node, ground_truth_node, path, i) ==
    IF i > Len(ground_truth_node.kv) THEN <<>>
    ELSE LET key == ground_truth_node.kv[i][1]
             gt_value == ground_truth_node.kv[i][2]
             current_path == key_path(path, key)
             here ==
                 IF key \in skip_fields THEN <<>>
                 ELSE IF looks_like_field(gt_value)
                      THEN <<compare_field_structure(get(extracted_node, key, missing_field),
                                                     gt_value, current_path)>>
                      ELSE IF gt_value.t \in {"map", "list"}
                           THEN traverse_and_compare(
                                    get(extracted_node, key,
                                        IF gt_value.t = "map" THEN EmptyDict ELSE EmptyList),
                                    gt_value, current_path)
                           ELSE <<>>
         IN here \o traverse_keys(extracted_node, ground_truth_node, path, i + 1)

\* for idx, gt_item in enumerate(ground_truth), from the i-th item on (idx = i - 1)
traverse_items(extracted_node, ground_truth_node, path, i) ==
    IF i > Len(ground_truth_node.xs) THEN <<>>
    ELSE LET gt_item == ground_truth_node.xs[i]
             extracted_item == IF i <= Len(extracted_node.xs) THEN extracted_node.xs[i]
                               ELSE missing_item(gt_item)
         IN traverse_and_compare(extracted_item, gt_item, index_path(path, i - 1))
            \o traverse_items(extracted_node, ground_truth_node, path, i + 1)

\* Mutant: a false_positive is counted in no bucket.
bucket_of_strict(status) ==
    CASE status \in {"correct", "correct_null"} -> "correct_fields"
      [] status = "incorrect" -> "incorrect_fields"
      [] status = "missing" -> "missing_fields"
      [] OTHER -> "none"

\* The counter _record_comparison adds to, besides total_fields.
bucket_of(status) ==
    CASE status \in {"correct", "correct_null"} -> "correct_fields"
      [] status \in {"incorrect", "false_positive"} -> "incorrect_fields"
      [] status = "missing" -> "missing_fields"
      [] OTHER -> "none"

record_comparison_out(res, c) ==
    [res EXCEPT !.total_fields = @ + 1,
                !.field_details = Append(@, c),
                !.correct_fields = IF bucket_of(c.status) = "correct_fields" THEN @ + 1 ELSE @,
                !.incorrect_fields = IF bucket_of(c.status) = "incorrect_fields" THEN @ + 1 ELSE @,
                !.missing_fields = IF bucket_of(c.status) = "missing_fields" THEN @ + 1 ELSE @]

\* (correct_fields / total_fields) * 100, in doubles
accuracy_percentage_of(correct_fields, total_fields) ==
    round_to_double(mul_from(double_of(correct_fields, total_fields), 100, Limbs, 0), FALSE)

OneHundred == double_of(100, 1)

\* Documents of the two files.
Leaf(v) == Dict(<< <<"value", v>>, <<"confidence", Float(1)>> >>)

v_Acme == <<"A","c","m","e">>

v_ACME == <<"A","C","M","E">>

v_Bob == <<"B","o","b">>

Employee(name) == Dict(<< <<"name", Leaf(name)>> >>)

EmployeePaid(name, gross) == Dict(<< <<"name", Leaf(name)>>, <<"gross", Leaf(gross)>> >>)

Totals(gross, net) == Dict(<< <<"gross", Leaf(gross)>>, <<"net", Leaf(net)>> >>)

One(key, v) == Dict(<< <<key, v>> >>)

Two(key1, v1, key2, v2) == Dict(<< <<key1, v1>>, <<key2, v2>> >>)

Trees ==
    {EmptyDict, EmptyList,
     Leaf(Str(v_Acme)),
     List(<<Employee(Str(v_Acme))>>),
     One("company", Leaf(Str(v_Acme))),
     One("company", Leaf(Str(v_ACME))),
     One("company", Leaf(Null)),
     One("company", Str(v_Acme)),
     One("company", EmptyList),
     Two("company", Leaf(Str(v_Acme)), "gross", Leaf(Str(v_100_00))),
     One("totals", Totals(Str(v_100_00), Null)),
     One("totals", Totals(Str(v_100_02), Str(v_5))),
     One("totals", EmptyList),
     Two("company", Leaf(Str(v_Acme)), "totals", Totals(Str(v_100_00), Null)),
     Two("company", Leaf(Str(v_Acme)), "totals", EmptyList),
     One("employees", List(<<Employee(Str(v_Acme)), EmployeePaid(Str(v_Bob), Null)>>)),
     One("employees", List(<<Employee(Str(v_Acme))>>)),
     One("employees", EmptyList),
     One("employees", EmptyDict),
     One("employees", List(<<Employee(Str(v_Acme)), EmptyList>>)),
     One("employees", List(<<Employee(Str(v_ACME)), One("gross", Leaf(Str(v_5)))>>)),
     Two("employees", List(<<Employee(Str(v_Acme)), EmployeePaid(Str(v_Bob), Null)>>),
         "company", Leaf(Str(v_Acme))),
     Two("employees", List(<<Employee(Str(v_ACME)), One("gross", Leaf(Str(v_5)))>>),
         "company", Leaf(Str(v_Bob))),
     One("rows", List(<<List(<<Employee(Str(v_Acme))>>)>>)),
     One("rows", EmptyList),
     One("rows", List(<<EmptyList>>)),
     One("rows", List(<<Leaf(Str(v_Acme))>>))}

InitCompare ==
    /\ extracted \in Trees
    /\ ground_truth \in Trees
    /\ pc = "start"
    /\ results = NoResults
    /\ pending = <<>>
    /\ comparison = NoComparison
    /\ results_ref = 1
    /\ pipeline_unused
    /\ mapped_data = NoDocument
    /\ validator_init

\* calculate_accuracy up to the traversal: self.results is reset and the two
\* documents are loaded.
calculate_accuracy ==
    /\ pc = "start"
    /\ results' = NoResults
    /\ pending' = traverse_and_compare(extracted, ground_truth, p_root)
    /\ pc' = "traversing"
    /\ UNCHANGED <<extracted, ground_truth, comparison>>
    /\ UNCHANGED <<validator_vars, results_ref, pipeline_vars>>

\* The traversal reaches its next field: _record_comparison(comparison)
record_comparison ==
    /\ pc = "traversing"
    /\ pending # <<>>
    /\ comparison' = Head(pending)
    /\ results' = record_comparison_out(results, Head(pending))
    /\ pending' = Tail(pending)
    /\ UNCHANGED <<pc, extracted, ground_truth>>
    /\ UNCHANGED <<validator_vars, results_ref, pipeline_vars>>

\* The traversal is over: the percentage is computed and self.results returned.
return_results ==
    /\ pc = "traversing"
    /\ pending = <<>>
    /\ results' = IF results.total_fields > 0
                  THEN [results EXCEPT !.accuracy_percentage =
                            accuracy_percentage_of(results.correct_fields, results.total_fields)]
                  ELSE results
    /\ pc' = "done"
    /\ UNCHANGED <<extracted, ground_truth, pending, comparison>>
    /\ UNCHANGED <<validator_vars, results_ref, pipeline_vars>>

NextCompare ==
    \/ calculate_accuracy
    \/ record_comparison
    \/ return_results

SpecCompare == InitCompare /\ [][NextCompare]_vars

-----------------------------------------------------------------------------
(* Reading a comparison run *)

\* A leaf field: a mapping with a `value` key.
IsLeafField(v) == v.t = "map" /\ HasKey(v, "value")

RECURSIVE HasLeaf(_)
\* The tree holds a leaf field: at its root, under a key or as an element.
HasLeaf(tree) ==
    \/ IsLeafField(tree)
    \/ tree.t = "map" /\ \E i \in 1..Len(tree.kv) : HasLeaf(tree.kv[i][2])
    \/ tree.t = "list" /\ \E i \in 1..Len(tree.xs) : HasLeaf(tree.xs[i])

Details == results.field_details

StatusCount(statuses) == Len(SelectSeq(Details, LAMBDA r : r.status \in statuses))

\* The field path is the path, or lies below it.
AtOrBelow(field_path, path) ==
    \/ path = p_root
    \/ field_path = path
    \/ /\ Len(field_path) > Len(path)
       /\ SubSeq(field_path, 1, Len(path)) = path
       /\ field_path[Len(path) + 1] \in {".", "["}

RecordsAtOrBelow(path) == SelectSeq(Details, LAMBDA r : AtOrBelow(r.field_path, path))

RECURSIVE LeavesBelow(_, _)
\* The leaf fields inside a node, each under its mapping key, with their paths.
LeavesBelow(node, path) ==
    IF node.t = "map"
    THEN UNION {IF node.kv[i][1] \in skip_fields THEN {}
                ELSE IF IsLeafField(node.kv[i][2])
                     THEN {[path |-> key_path(path, node.kv[i][1]),
                            value |-> Item(node.kv[i][2], "value")]}
                     ELSE LeavesBelow(node.kv[i][2], key_path(path, node.kv[i][1])) :
                i \in 1..Len(node.kv)}
    ELSE IF node.t = "list"
         THEN UNION {LeavesBelow(node.xs[i], index_path(path, i - 1)) : i \in 1..Len(node.xs)}
         ELSE {}

RECURSIVE AllLeafPaths(_, _)
\* The paths of all the leaf fields of a tree, those at its root or at an index too.
AllLeafPaths(node, path) ==
    (IF IsLeafField(node) THEN {path} ELSE {})
    \cup (IF node.t = "map"
          THEN UNION {AllLeafPaths(node.kv[i][2], key_path(path, node.kv[i][1])) :
                      i \in 1..Len(node.kv)}
          ELSE IF node.t = "list"
               THEN UNION {AllLeafPaths(node.xs[i], index_path(path, i - 1)) :
                           i \in 1..Len(node.xs)}
               ELSE {})

RECURSIVE Extends(_, _)
\* big is small with keys added to its mappings or elements added to its sequences.
Extends(big, small) ==
    IF small.t = "map" /\ big.t = "map"
    THEN \A i \in 1..Len(small.kv) :
            /\ HasKey(big, small.kv[i][1])
            /\ Extends(Item(big, small.kv[i][1]), small.kv[i][2])
    ELSE IF small.t = "list" /\ big.t = "list"
         THEN /\ Len(big.xs) >= Len(small.xs)
              /\ \A i \in 1..Len(small.xs) : Extends(big.xs[i], small.xs[i])
         ELSE big = small

KeyStep(key) == [k |-> "key", key |-> key, idx |-> 0]

IndexStep(idx) == [k |-> "idx", key |-> "", idx |-> idx]

RECURSIVE CoLocated(_, _, _, _, _)
\* The pairs of nodes the two trees hold at the same path: under the same keys
\* and at the same indexes all the way down.
CoLocated(e, g, path, steps, via_key) ==
    {[path |-> path, steps |-> steps, e |-> e, g |-> g, via_key |-> via_key]}
    \cup (IF e.t = "map" /\ g.t = "map"
          THEN UNION {IF HasKey(e, g.kv[i][1])
                      THEN CoLocated(Item(e, g.kv[i][1]), g.kv[i][2], key_path(path, g.kv[i][1]),
                                     Append(steps, KeyStep(g.kv[i][1])), TRUE)
                      ELSE {} : i \in 1..Len(g.kv)}
          ELSE IF e.t = "list" /\ g.t = "list"
               THEN UNION {IF i <= Len(e.xs)
                           THEN CoLocated(e.xs[i], g.xs[i], index_path(path, i - 1),
                                          Append(steps, IndexStep(i)), FALSE)
                           ELSE {} : i \in 1..Len(g.xs)}
               ELSE {})

Nodes == CoLocated(extracted, ground_truth, p_root, <<>>, FALSE)

KindMismatch(e, g) == (e.t = "map" /\ g.t = "list") \/ (e.t = "list" /\ g.t = "map")

RECURSIVE Without(_, _)
\* The tree without the subtree that the steps lead to (the last step is a key).
Without(tree, steps) ==
    IF Len(steps) = 1
    THEN Dict(SelectSeq(tree.kv, LAMBDA p : p[1] # steps[1].key))
    ELSE IF steps[1].k = "key"
         THEN Dict([i \in 1..Len(tree.kv) |->
                      IF tree.kv[i][1] = steps[1].key
                      THEN <<tree.kv[i][1], Without(tree.kv[i][2], Tail(steps))>>
                      ELSE tree.kv[i]])
         ELSE List([i \in 1..Len(tree.xs) |->
                      IF i = steps[1].idx THEN Without(tree.xs[i], Tail(steps)) ELSE tree.xs[i]])

-----------------------------------------------------------------------------
(* C16 *)

\* C16: comparing a tree that holds at least one leaf field with itself gives
\* accuracy_percentage = 100.0 and no incorrect and no missing entry, wherever
\* the leaf sits: at the root, under a mapping key or as an element of a sequence.
C16_SelfCompare ==
    (pc = "done" /\ extracted = ground_truth /\ HasLeaf(ground_truth))
        => /\ results.accuracy_percentage = OneHundred
           /\ results.incorrect_fields = 0
           /\ results.missing_fields = 0
           /\ StatusCount({"incorrect", "missing", "false_positive"}) = 0

-----------------------------------------------------------------------------
(* C17 *)

\* C17: after every _record_comparison and at the end of the run, total_fields =
\* len(field_details) = correct_fields + incorrect_fields + missing_fields, each
\* record being counted once: correct and correct_null as correct, incorrect and
\* false_positive as incorrect, missing as missing.
C17_BucketSum ==
    /\ results.total_fields = Len(Details)
    /\ results.total_fields = results.correct_fields + results.incorrect_fields + results.missing_fields
    /\ results.correct_fields = StatusCount({"correct", "correct_null"})
    /\ results.incorrect_fields = StatusCount({"incorrect", "false_positive"})
    /\ results.missing_fields = StatusCount({"missing"})

\* A run recorded a correct, an incorrect, a missing and a false_positive field.
C17_Witness ==
    /\ pc = "done"
    /\ StatusCount({"correct"}) >= 1
    /\ StatusCount({"incorrect"}) >= 1
    /\ StatusCount({"missing"}) >= 1
    /\ StatusCount({"false_positive"}) >= 1

-----------------------------------------------------------------------------
(* C18 *)

RecordsAddressLeaves ==
    \A i \in 1..Len(Details) : Details[i].field_path \in AllLeafPaths(ground_truth, p_root)

\* C18: every record addresses a leaf field of the ground truth, and no tree
\* that adds keys or elements to extracted gives more records against the same
\* ground truth.
C18_GroundTruthDefinesFields ==
    pc = "done" =>
        /\ RecordsAddressLeaves
        /\ \A more \in Trees :
              Extends(more, extracted)
                 => Len(traverse_and_compare(more, ground_truth, p_root)) <= results.total_fields

-----------------------------------------------------------------------------
(* C19 *)

\* C19: element i of a ground-truth sequence is compared with element i of the
\* extracted sequence at the same path, and every leaf field inside an element
\* that extracted lacks yields exactly one record, missing for a ground-truth
\* value and correct_null for a null or empty one, whatever the element holds.
C19_TailElements ==
    pc = "done" =>
        \A n \in Nodes :
            (n.e.t = "list" /\ n.g.t = "list") =>
                \A i \in 1..Len(n.g.xs) :
                    IF i <= Len(n.e.xs)
                    THEN RecordsAtOrBelow(index_path(n.path, i - 1))
                            = traverse_and_compare(n.e.xs[i], n.g.xs[i], index_path(n.path, i - 1))
                    ELSE \A leaf \in LeavesBelow(n.g.xs[i], index_path(n.path, i - 1)) :
                            /\ Len(RecordsAtOrBelow(leaf.path)) = 1
                            /\ RecordsAtOrBelow(leaf.path)[1].status =
                                  (IF Blank_(leaf.value) THEN "correct_null" ELSE "missing")

-----------------------------------------------------------------------------
(* C20 *)

\* The run recorded what it records when neither tree has the subtree.
AsIfAbsent(n) ==
    n.via_key =>
        Details = traverse_and_compare(Without(extracted, n.steps), Without(ground_truth, n.steps), p_root)

Skipped(n) == RecordsAtOrBelow(n.path) = <<>> /\ AsIfAbsent(n)

-----------------------------------------------------------------------------
(* C25 *)

\* C25: two values that are not null and are of different types (a boolean and
\* a number, an integer and a decimal, a number and a string) match only if
\* their string representations are equal after trimming and lower-casing.
C25_TypeIdentical ==
    (pc = "matched" /\ extracted.t # "null" /\ ground_truth.t # "null" /\ extracted.t # ground_truth.t)
        => (comparison.match => Normalised(extracted) = Normalised(ground_truth))

-----------------------------------------------------------------------------
(* calculate_accuracy on documents of up to MaxFields fields *)

MaxFields == 25

\* A document with one employee for each name.
EmployeesNamed(names) == One("employees", List([i \in 1..Len(names) |-> Employee(Str(names[i]))]))

\* A ground truth of total fields and an extraction with the first correct of them right.
Roster(total) == EmployeesNamed([i \in 1..total |-> v_Acme])

Extraction(correct, total) == EmployeesNamed([i \in 1..total |-> IF i <= correct THEN v_Acme ELSE v_Bob])

InitPercent ==
    /\ \E total \in 0..MaxFields : \E correct \in 0..total :
          /\ extracted = Extraction(correct, total)
          /\ ground_truth = Roster(total)
    /\ pc = "start"
    /\ results = NoResults
    /\ pending = <<>>
    /\ comparison = NoComparison
    /\ results_ref = 1
    /\ pipeline_unused
    /\ mapped_data = NoDocument
    /\ validator_init

SpecPercent == InitPercent /\ [][NextCompare]_vars

-----------------------------------------------------------------------------
(* C22 *)

\* C22: accuracy_percentage is 100 * correct_fields / total_fields when
\* total_fields > 0 and 0.0 when total_fields = 0; it never exceeds 100 and is
\* 100 exactly when correct_fields = total_fields > 0.
C22_Percentage ==
    pc = "done" =>
        /\ results.total_fields = 0 => results.accuracy_percentage = Zero
        /\ results.total_fields > 0
              => results.accuracy_percentage = double_of(100 * results.correct_fields, results.total_fields)
        /\ ~less_than(OneHundred, results.accuracy_percentage)
        /\ results.accuracy_percentage = OneHundred
              <=> (results.total_fields > 0 /\ results.correct_fields = results.total_fields)

-----------------------------------------------------------------------------
(* traverse_and_compare, one activation at a time *)

\* An activation of traverse_and_compare(extracted, ground_truth, path); at is
\* the number of keys (or items) of ground_truth its loop has been through.
Activation(extracted_node, ground_truth_node, path) == [extracted |-> extracted_node, ground_truth |-> ground_truth_node, path |-> path, at |-> 0]

\* sequence[idx]: IndexError when idx is not below len(sequence)
subscript(sequence, idx) == IF idx < Len(sequence.xs) THEN sequence.xs[idx + 1] ELSE Exc

\* Mutant: the item is read without the test on the length.
extracted_item_unguarded(extracted_node, idx, gt_item) == subscript(extracted_node, idx)

\* extracted[idx] if idx < len(extracted) else {}
extracted_item(extracted_node, idx, gt_item) == IF idx < Len(extracted_node.xs) THEN subscript(extracted_node, idx) ELSE missing_item(gt_item)

\* One turn of `for key in ground_truth.keys()` (lines 105-123): an exception, or
\* the comparison to record and the call to make, if any.
key_turn(act) ==
    LET key == act.ground_truth.kv[act.at + 1][1]
        gt_value == act.ground_truth.kv[act.at + 1][2]
        current_path == key_path(act.path, key)
    IN IF key \in skip_fields THEN [exc |-> FALSE, record |-> <<>>, call |-> <<>>]
       ELSE IF looks_like_field(gt_value)
            THEN LET extracted_field == get(act.extracted, key, missing_field)
                 IN IF extracted_field = Exc THEN [exc |-> TRUE, record |-> <<>>, call |-> <<>>]
                    ELSE [exc |-> FALSE,
                          record |-> <<compare_field_structure(extracted_field, gt_value, current_path)>>,
                          call |-> <<>>]
            ELSE IF gt_value.t \in {"map", "list"}
                 THEN LET extracted_value == get(act.extracted, key, IF gt_value.t = "map" THEN EmptyDict ELSE EmptyList)
                      IN IF extracted_value = Exc THEN [exc |-> TRUE, record |-> <<>>, call |-> <<>>]
                         ELSE [exc |-> FALSE, record |-> <<>>,
                               call |-> <<Activation(extracted_value, gt_value, current_path)>>]
                 ELSE [exc |-> FALSE, record |-> <<>>, call |-> <<>>]

\* One turn of `for idx, gt_item in enumerate(ground_truth)` (lines 127-130).
item_turn(act) ==
    LET gt_item == act.ground_truth.xs[act.at + 1]
        current_path == index_path(act.path, act.at)
        item == extracted_item(act.extracted, act.at, gt_item)
    IN IF item = Exc THEN [exc |-> TRUE, record |-> <<>>, call |-> <<>>]
       ELSE [exc |-> FALSE, record |-> <<>>, call |-> <<Activation(item, gt_item, current_path)>>]

\* What the activation on top of the stack does next: nothing more (it returns),
\* or one turn of its loop.
turn(act) ==
    IF act.ground_truth.t = "map" /\ act.extracted.t = "map"
    THEN IF act.at < Len(act.ground_truth.kv) THEN key_turn(act) ELSE [exc |-> FALSE, returns |-> TRUE]
    ELSE IF act.ground_truth.t = "list" /\ act.extracted.t = "list"
         THEN IF act.at < Len(act.ground_truth.xs) THEN item_turn(act) ELSE [exc |-> FALSE, returns |-> TRUE]
         ELSE [exc |-> FALSE, returns |-> TRUE]

Returns(t) == "returns" \in DOMAIN t

\* Documents with scalars, nulls and containers at every place: at the root,
\* for a section, as the value of a leaf field, under the skipped keys, and
\* under keys named root or holding a point or a bracket.
Metadata(v, name) == Dict(<< <<"source_file", v>>, <<"name", Leaf(name)>> >>)

AnyTrees ==
    {Null, Str(v_Acme), Num(1), EmptyDict, EmptyList,
     Leaf(Str(v_Acme)),
     One("company", Null),
     One("company", Str(v_Acme)),
     One("company", Leaf(Str(v_Acme))),
     One("company", Leaf(Num(1))),
     One("company", Leaf(Null)),
     One("company", Leaf(EmptyList)),
     One("company", Leaf(List(<<Num(1)>>))),
     One("company", Leaf(Employee(Str(v_Bob)))),
     One("company", EmptyList),
     One("totals", Null),
     One("totals", EmptyList),
     One("totals", Totals(Str(v_100_00), Null)),
     One("totals", Totals(Str(v_Bob), Str(v_5))),
     Two("totals.gross", Leaf(Str(v_100_00)), "totals", Totals(Str(v_100_00), Null)),
     Two("root", Employee(Str(v_Acme)), "name", Leaf(Str(v_Bob))),
     Two("rows[0]", Employee(Str(v_Acme)), "rows", List(<<Employee(Str(v_Bob))>>)),
     One("rows", List(<<Employee(Str(v_Acme))>>)),
     One("rows", List(<<Leaf(Str(v_Acme)), Null>>)),
     One("rows", List(<<List(<<Employee(Str(v_Acme))>>)>>)),
     One("rows", EmptyList),
     Metadata(Leaf(Str(v_Acme)), Str(v_Acme)),
     Metadata(Str(v_Acme), Str(v_Bob)),
     Metadata(Totals(Str(v_5), Null), Str(v_Acme)),
     One("totals", Metadata(Leaf(Str(v_5)), Str(v_Acme))),
     One("totals", Metadata(Totals(Str(v_5), Null), Str(v_Acme))),
     One("employees", List(<<Metadata(Leaf(Str(v_5)), Str(v_Acme)), Employee(Str(v_Bob))>>)),
     One("employees", List(<<Employee(Str(v_Acme))>>)),
     One("employees", EmptyDict),
     List(<<Employee(Str(v_Acme)), Metadata(List(<<Employee(Str(v_Bob))>>), Str(v_Bob))>>),
     List(<<Num(1)>>)}

InitTraverse ==
    /\ extracted = NoDocument
    /\ ground_truth = NoDocument
    /\ pc = "start"
    /\ results = NoResults
    /\ pending = <<>>
    /\ comparison = NoComparison
    /\ results_ref = 1
    /\ pipeline_unused
    /\ mapped_data = NoDocument
    /\ validator_init

\* calculate_accuracy, lines 157-174: self.results is reset, the two documents
\* are loaded and traverse_and_compare(extracted_data, ground_truth_data) is called.
call_traverse_and_compare ==
    /\ pc = "start"
    /\ results' = NoResults
    /\ extracted' \in AnyTrees
    /\ ground_truth' \in AnyTrees
    /\ pending' = <<Activation(extracted', ground_truth', p_root)>>
    /\ pc' = "traversing"
    /\ UNCHANGED comparison
    /\ UNCHANGED <<validator_vars, results_ref, pipeline_vars>>

\* The activation on top of the stack takes one turn of its loop, or returns;
\* an exception unwinds the whole stack and leaves calculate_accuracy.
traverse_and_compare_turn ==
    /\ pc = "traversing"
    /\ pending # <<>>
    /\ \E act \in {Head(pending)} : \E t \in {turn(act)} :
          IF t.exc
          THEN /\ pc' = "raised"
               /\ pending' = <<>>
               /\ UNCHANGED <<results, comparison>>
          ELSE IF Returns(t)
               THEN /\ pending' = Tail(pending)
                    /\ UNCHANGED <<pc, results, comparison>>
               ELSE /\ pending' = t.call \o <<[act EXCEPT !.at = @ + 1]>> \o Tail(pending)
                    /\ results' = IF t.record = <<>> THEN results
                                  ELSE record_comparison_out(results, t.record[1])
                    /\ comparison' = IF t.record = <<>> THEN comparison ELSE t.record[1]
                    /\ UNCHANGED pc
    /\ UNCHANGED <<extracted, ground_truth>>
    /\ UNCHANGED <<validator_vars, results_ref, pipeline_vars>>

\* The first activation has returned: line 174 is over.
traverse_and_compare_returns ==
    /\ pc = "traversing"
    /\ pending = <<>>
    /\ pc' = "done"
    /\ UNCHANGED <<extracted, ground_truth, results, pending, comparison>>
    /\ UNCHANGED <<validator_vars, results_ref, pipeline_vars>>

NextTraverse ==
    \/ call_traverse_and_compare
    \/ traverse_and_compare_turn
    \/ traverse_and_compare_returns

SpecTraverse == InitTraverse /\ [][NextTraverse]_vars

\* The interpreter runs the call to its end: a step that can be taken is taken.
SpecTraverseFair == SpecTraverse /\ WF_vars(NextTraverse)

\* The run recorded the comparisons the recursive traversal lists.
SameAsRecursion == pc = "done" => results.field_details = traverse_and_compare(extracted, ground_truth, p_root)

-----------------------------------------------------------------------------
(* C21 *)

Statuses == {"correct", "correct_null", "incorrect", "missing", "false_positive"}

\* C21: for any two trees (scalars, sequences and mappings at any place, kind
\* mismatches, absent keys, null sections, leaf values that are containers) the
\* traversal never raises, every comparison it records has one of the five
\* statuses, and the run ends.
C21_NeverFails ==
    /\ [](pc # "raised")
    /\ [](\A i \in 1..Len(Details) : Details[i].status \in Statuses)
    /\ <>(pc = "done")

\* The traversal ended after comparing a leaf field whose two values are containers.
C21_Witness ==
    /\ pc = "done"
    /\ \E i \in 1..Len(Details) :
          /\ Details[i].extracted_value.t \in {"list", "map"}
          /\ Details[i].ground_truth_value.t \in {"list", "map"}

-----------------------------------------------------------------------------
(* C23 *)

\* C23: no two comparison records of a run carry the same field_path, also
\* when the ground truth has a key named root or a key holding a point or a
\* bracket.
C23_UniquePaths ==
    \A i \in 1..Len(Details) : \A j \in 1..Len(Details) :
        i # j => Details[i].field_path # Details[j].field_path

-----------------------------------------------------------------------------
(* C26 *)

Scalar(v) == v.t \in {"str", "num", "float", "bool"}

\* C26: under a key of the ground truth, a node {value: x, ...} is compared by
\* x and a bare scalar is compared as it is, with the value of the extracted
\* node or the extracted scalar itself: either way the key gives a record.
C26_BareLeaves ==
    (pc = "done" /\ ground_truth.t = "map" /\ extracted.t = "map") =>
        \A i \in 1..Len(ground_truth.kv) :
            LET key == ground_truth.kv[i][1]
                gt_node == ground_truth.kv[i][2]
                node == IF HasKey(extracted, key) THEN Item(extracted, key) ELSE Null
            IN (key \notin skip_fields /\ (IsLeafField(gt_node) \/ Scalar(gt_node))) =>
                  \E r \in 1..Len(Details) :
                      /\ Details[r].field_path = KeyText(key)
                      /\ Details[r].ground_truth_value
                            = (IF Scalar(gt_node) THEN gt_node ELSE Item(gt_node, "value"))
                      /\ Details[r].extracted_value
                            = (IF node.t # "map" THEN node
                               ELSE IF HasKey(node, "value") THEN Item(node, "value") ELSE Null)

-----------------------------------------------------------------------------
(* C27 *)

MetadataKeys == {"extraction_timestamp", "source_file", "document_type"}

\* What extracted holds under the key, or at the index, if anything.
Under(e, key) == IF e.t = "map" /\ HasKey(e, key) THEN Item(e, key) ELSE NoDocument

AtIndex(e, i) == IF e.t = "list" /\ i <= Len(e.xs) THEN e.xs[i] ELSE NoDocument

RECURSIVE ExpectedFields(_, _)
RECURSIVE ExpectedFrom(_, _, _)
\* The number of leaf fields under the keys of the mapping nodes of g, the
\* metadata keys and what is beneath them left out, and nothing counted beneath
\* a leaf field or where e has a sequence for a mapping or a mapping for a sequence.
ExpectedFields(e, g) ==
    IF KindMismatch(e, g) \/ g.t \notin {"map", "list"} THEN 0 ELSE ExpectedFrom(e, g, 1)

ExpectedFrom(e, g, i) ==
    IF g.t = "map"
    THEN IF i > Len(g.kv) THEN 0
         ELSE (IF g.kv[i][1] \in MetadataKeys THEN 0
               ELSE IF IsLeafField(g.kv[i][2]) THEN 1
               ELSE ExpectedFields(Under(e, g.kv[i][1]), g.kv[i][2]))
              + ExpectedFrom(e, g, i + 1)
    ELSE IF i > Len(g.xs) THEN 0
         ELSE ExpectedFields(AtIndex(e, i), g.xs[i]) + ExpectedFrom(e, g, i + 1)

\* C27: at every mapping node of the ground truth, at any depth, the keys
\* extraction_timestamp, source_file and document_type give no record and are
\* not entered, and every other key whose value is a mapping with a `value` key
\* gives exactly one record, with nothing beneath it compared.
C27_KeysOfMappings ==
    pc = "done" => results.total_fields = ExpectedFields(extracted, ground_truth)

-----------------------------------------------------------------------------
(* calculate_accuracy, called again and again on one AccuracyCalculator *)

RECURSIVE record_all(_, _)
\* _record_comparison applied to each comparison of the traversal, in order
record_all(res, comparisons) ==
    IF comparisons = <<>> THEN res
    ELSE record_all(record_comparison_out(res, Head(comparisons)), Tail(comparisons))

\* What a run leaves in the dict it starts from: lines 174-180
run_on(res, extracted_data, ground_truth_data) ==
    LET r == record_all(res, traverse_and_compare(extracted_data, ground_truth_data, p_root))
    IN IF r.total_fields > 0
       THEN [r EXCEPT !.accuracy_percentage = accuracy_percentage_of(r.correct_fields, r.total_fields)]
       ELSE r

\* Mutant: the dict is reset in place, keeping its identity.
fresh_results_in_place(bound, free) == bound

\* self.results = {...}: the attribute is bound to a newly allocated dict
fresh_results(bound, free) == free

RunInputs ==
    {One("company", Leaf(Str(v_Acme))),
     One("company", Leaf(Str(v_Bob))),
     Two("employees", List(<<Employee(Str(v_Acme)), EmployeePaid(Str(v_Bob), Null)>>),
         "company", Leaf(Str(v_Acme)))}

InitRuns ==
    /\ extracted = NoDocument
    /\ ground_truth = NoDocument
    /\ pc = "start"
    /\ results = NoResults
    /\ pending = <<>>
    /\ comparison = NoComparison
    /\ results_ref = 1
    /\ pipeline_unused
    /\ mapped_data = NoDocument
    /\ validator_init

\* One whole call of calculate_accuracy: a new dict is bound to self.results, the
\* two documents are loaded and compared, and the dict is returned to the caller,
\* who keeps it.  The dict bound until now keeps its contents.
calculate_accuracy_again ==
    /\ calls < MaxCalls
    /\ extracted' \in RunInputs
    /\ ground_truth' \in RunInputs
    /\ results_ref' = fresh_results(results_ref, 1 + Cardinality(DOMAIN heap \cup {results_ref}))
    /\ heap' = [r \in DOMAIN heap \cup {results_ref} |-> IF r = results_ref THEN results ELSE heap[r]]
    /\ results' = run_on(NoResults, extracted', ground_truth')
    /\ history' = Append(history, [extracted |-> extracted', ground_truth |-> ground_truth',
                                   result |-> results', ref |-> results_ref'])
    /\ calls' = calls + 1
    /\ pc' = "done"
    /\ UNCHANGED <<pending, comparison, mapped_data, errors, warnings, raised, validation_result, errors_ref, warnings_ref, todo>>
    /\ UNCHANGED pipeline_vars

NextRuns == calculate_accuracy_again

SpecRuns == InitRuns /\ [][NextRuns]_vars

-----------------------------------------------------------------------------
(* C24 *)

\* A returned summary as its caller reads it now.
HeldSummary(h) == IF h.ref = results_ref THEN results ELSE heap[h.ref]

\* C24: after any sequence of runs on one AccuracyCalculator, every summary
\* returned so far, the latest one too, is the summary of its own run alone
\* (what a new AccuracyCalculator returns for the two documents of that run),
\* and reads now as it did when it was returned.
C24_SummariesKept ==
    \A i \in 1..Len(history) :
        /\ HeldSummary(history[i]) = history[i].result
        /\ history[i].result = run_on(NoResults, history[i].extracted, history[i].ground_truth)
        /\ history[i].result.total_fields = Len(history[i].result.field_details)

\* Three runs were made with three different summaries, each of some fields.
C24_Witness ==
    /\ Len(history) = 3
    /\ history[1].result # history[2].result
    /\ history[2].result # history[3].result
    /\ history[1].result # history[3].result
    /\ \A i \in 1..3 : history[i].result.total_fields >= 1

-----------------------------------------------------------------------------
(* _extract_numeric_value and _is_numeric applied to `years` mappings *)

MaxEntries == 3

YearKeys == <<"2019", "2020", "2021", "2022">>

\* The year values of the inputs: null, empty, unparsable and numeric entries.
YearValues ==
    {Null, Str(<<>>), Str(s_abc), Str(s_12), Str(s_1sp000), Str(s_tab12),
     Str(s_fs12), Str(s_0), Num(5), EmptyList}

\* The `years` mappings with up to MaxEntries entries, in insertion order.
YearsOfLength(n) ==
    {Dict([i \in 1..n |-> <<YearKeys[i], vs[i]>>]) : vs \in [1..n -> YearValues]}

YearsInputs == UNION {YearsOfLength(n) : n \in 0..MaxEntries}

InitExtract ==
    /\ mapped_data \in YearsInputs
    /\ pc = "start"
    /\ validator_init
    /\ differ_unused

\* self._extract_numeric_value(years_dict)
call_extract_numeric_value ==
    /\ pc = "start"
    /\ validation_result' = extract_numeric_value(mapped_data)
    /\ pc' = "extracted"
    /\ UNCHANGED <<mapped_data, errors, warnings, raised, errors_ref, warnings_ref, heap, history, calls, todo>>
    /\ UNCHANGED <<differ_vars, pipeline_vars>>

\* self._is_numeric(value), for one value of the mapping
call_is_numeric ==
    /\ pc = "start"
    /\ \E i \in 1..Len(mapped_data.kv) :
          validation_result' = [value |-> mapped_data.kv[i][2],
                                numeric |-> is_numeric(mapped_data.kv[i][2])]
    /\ pc' = "checked"
    /\ UNCHANGED <<mapped_data, errors, warnings, raised, errors_ref, warnings_ref, heap, history, calls, todo>>
    /\ UNCHANGED <<differ_vars, pipeline_vars>>

NextExtract == call_extract_numeric_value \/ call_is_numeric

SpecExtract == InitExtract /\ [][NextExtract]_vars

\* The entries before the i-th do not parse.
NoneParsesBefore(kv, i) == \A j \in 1..(i - 1) : ~ParsesWithoutBlanks(kv[j][2])

\* The first entry that parses gives the value; None exactly when no entry parses.
FirstParsing ==
    pc = "extracted" =>
       LET kv == mapped_data.kv
       IN /\ validation_result # Exc
          /\ (validation_result = Null) <=> (\A i \in 1..Len(kv) : ~ParsesWithoutBlanks(kv[i][2]))
          /\ \A i \in 1..Len(kv) :
                (ParsesWithoutBlanks(kv[i][2]) /\ NoneParsesBefore(kv, i)) =>
                   validation_result =
                      (IF kv[i][2].t = "num" THEN kv[i][2]
                       ELSE Num(float(RemoveChars(kv[i][2].s, {",", " "}))))

\* _is_numeric accepts a value exactly when _extract_numeric_value returns it.
SameParse ==
    pc = "checked" =>
       (validation_result.numeric <=>
           extract_numeric_value(Dict(<<<<"2020", validation_result.value>>>>)) # Null)

\* C28: the representative value of a field is the first entry of its `years`
\* mapping, in iteration order, whose value parses as a number; null, empty and
\* unparsable entries are skipped without error, and there is no value exactly
\* when no entry parses; a value passes _is_numeric if and only if
\* _extract_numeric_value can return it.
C28_Representative == FirstParsing /\ SameParse

-----------------------------------------------------------------------------
(* C29 *)

\* The total equals the sum of its sibling fields.
ConsistentSection(md) ==
    SubtotalResolved(md) /\ TotalOf(md) = ComponentSum(md)

\* C29: whenever the representative value of TotalCurrentAssets equals the sum
\* of the representative values of its sibling fields, negative values
\* included, check 3 appends no warning.
C29_ConsistentNoWarning ==
    (Completed(3) /\ ConsistentSection(mapped_data)) => Len(WarningsBy(3)) = 0

-----------------------------------------------------------------------------
(* PayrollExtractionPipeline.process_pdf (main.py) *)

MaxPages == 3

\* extract_text_from_pdf: the pages are numbered from 1; an unreadable file gives [].
PagesOf(n) == [i \in 1..n |-> [page_number |-> i]]

\* len(interim_data.get('employees', []))
EmployeeCounts == {0, 2}

FailedRecord(page_num, step) == [page |-> page_num, status |-> "failed", step |-> step]

SuccessRecord(page_num, num_employees) ==
    [page |-> page_num, status |-> "success", employees |-> num_employees]

Attempt(page_num, step) == [page |-> page_num, step |-> step]

page_num == pages[position].page_number

pipeline_others == <<validator_vars, extracted, ground_truth, pending, comparison, results_ref>>

InitPipeline ==
    /\ pc = "start"
    /\ mapped_data = Null
    /\ validator_init
    /\ differ_unused

\* Lines 47-73: step 1 returns the pages; results = [].
process_pdf ==
    /\ pc = "start"
    /\ \E n \in 0..MaxPages : pages' = PagesOf(n)
    /\ results' = <<>>
    /\ pc' = "loop"
    /\ UNCHANGED <<position, interim_data, attempts, summary>>
    /\ UNCHANGED pipeline_others

\* for page_data in pages: the next page, or the end of the loop.
next_page ==
    /\ pc = "loop"
    /\ IF position < Len(pages)
       THEN /\ position' = position + 1
            /\ pc' = "step2"
       ELSE /\ pc' = "summary"
            /\ UNCHANGED position
    /\ UNCHANGED <<pages, results, interim_data, attempts, summary>>
    /\ UNCHANGED pipeline_others

\* Mutant: `break` where the code has `continue`.
after_failure_break == "summary"

\* `continue` (lines 114 and 149): the loop goes on with the next page.
after_failure == "loop"

\* Lines 87-103: extract_raw_data returns and the interim data is saved.
raw_extraction_returns ==
    /\ pc = "step2"
    /\ \E n \in EmployeeCounts : interim_data' = [employees |-> n]
    /\ attempts' = Append(attempts, Attempt(page_num, "raw_extraction"))
    /\ pc' = "step3"
    /\ UNCHANGED <<pages, position, results, summary>>
    /\ UNCHANGED pipeline_others

\* Lines 105-114: an exception in the try block of step 2.
raw_extraction_raises ==
    /\ pc = "step2"
    /\ attempts' = Append(attempts, Attempt(page_num, "raw_extraction"))
    /\ results' = Append(results, FailedRecord(page_num, "raw_extraction"))
    /\ pc' = after_failure
    /\ UNCHANGED <<pages, position, interim_data, summary>>
    /\ UNCHANGED pipeline_others

\* Lines 118-138 and 169-175: map_to_global_schema returns, the mapped data is
\* saved and the success is recorded.
schema_mapping_returns ==
    /\ pc = "step3"
    /\ attempts' = Append(attempts, Attempt(page_num, "schema_mapping"))
    /\ results' = Append(results, SuccessRecord(page_num, interim_data.employees))
    /\ pc' = "loop"
    /\ UNCHANGED <<pages, position, interim_data, summary>>
    /\ UNCHANGED pipeline_others

\* Lines 140-149: an exception in the try block of step 3.
schema_mapping_raises ==
    /\ pc = "step3"
    /\ attempts' = Append(attempts, Attempt(page_num, "schema_mapping"))
    /\ results' = Append(results, FailedRecord(page_num, "schema_mapping"))
    /\ pc' = after_failure
    /\ UNCHANGED <<pages, position, interim_data, summary>>
    /\ UNCHANGED pipeline_others

successful == SelectSeq(results, LAMBDA r : r.status = "success")

failed == SelectSeq(results, LAMBDA r : r.status = "failed")

\* Lines 184-227.  `total_time/len(pages)` (line 202) raises ZeroDivisionError
\* when there is no page, before the summary is built.
summarise ==
    /\ pc = "summary"
    /\ IF Len(pages) = 0
       THEN /\ pc' = "raised"
            /\ UNCHANGED summary
       ELSE /\ summary' = [total_pages |-> Len(pages),
                           successful_pages |-> Len(successful),
                           failed_pages |-> Len(failed),
                           results |-> results]
            /\ pc' = "returned"
    /\ UNCHANGED <<pages, position, results, interim_data, attempts>>
    /\ UNCHANGED pipeline_others

NextPipeline ==
    \/ process_pdf
    \/ next_page
    \/ raw_extraction_returns
    \/ raw_extraction_raises
    \/ schema_mapping_returns
    \/ schema_mapping_raises
    \/ summarise

SpecPipeline == InitPipeline /\ [][NextPipeline]_vars

\* The number of pages the loop has finished.
PagesDone == IF pc \in {"step2", "step3"} THEN position - 1 ELSE position

Attempted(n, step) == \E i \in 1..Len(attempts) : attempts[i] = Attempt(n, step)

\* C30: for any combination of per-page step outcomes, the results list holds
\* exactly one record per page in page order, successful_pages + failed_pages =
\* total_pages, schema mapping is never attempted for a page whose raw
\* extraction raised, and a failure on one page never prevents the following
\* pages from being processed.
C30_OneRecordPerPage ==
    (pc \notin {"start"}) =>
        /\ Len(results) = PagesDone
        /\ \A i \in 1..Len(results) : results[i].page = pages[i].page_number
        /\ \A i \in 1..Len(results) :
              /\ Attempted(results[i].page, "raw_extraction")
              /\ (results[i].status = "failed" /\ results[i].step = "raw_extraction")
                    => ~Attempted(results[i].page, "schema_mapping")
        /\ (pc \in {"summary", "returned", "raised"}) =>
              /\ Len(results) = Len(pages)
              /\ \A i \in 1..Len(pages) : Attempted(pages[i].page_number, "raw_extraction")
        /\ (pc = "returned") =>
              /\ summary.results = results
              /\ summary.total_pages = Len(pages)
              /\ summary.successful_pages + summary.failed_pages = summary.total_pages

C30_Witness ==
    /\ pc = "returned"
    /\ Len(pages) = 3
    /\ summary.results[1] = FailedRecord(1, "raw_extraction")
    /\ summary.results[2] = FailedRecord(2, "schema_mapping")
    /\ summary.results[3].status = "success"
    /\ summary.successful_pages = 1
    /\ summary.failed_pages = 2

====
